---- MODULE Spec2Model ----
(***************************************************************************)
(* Model of the zarf-testing validation engine (pkg/zarf/validator.go),    *)
(* the manifest parser it uses (pkg/util) and the lint command that        *)
(* drives it.  Strings the code inspects character by character are        *)
(* sequences of one-character strings; strings it only compares are TLA+   *)
(* strings.  A message is a tuple: its text, or its format followed by the *)
(* arguments of fmt.Sprintf; a message taken from the lint tool's output   *)
(* is the sequence of its characters.                                      *)
(***************************************************************************)
EXTENDS Integers, Sequences, FiniteSets, TLC

VARIABLES
    UseSDK,     \* the validator's flag (PackageValidator.UseSDK)
    dir,        \* the package directory the validator is pointed at
    zarf,       \* how the external lint tool behaves when run there
    last,       \* the last ValidatePackage call on the validator, if any
    lintRun,    \* the run of the lint command, if any
    arg,        \* the arguments of one call of a validation pass
    ret         \* what that call returned, if made

vars == <<UseSDK, dir, zarf, last, lintRun, arg, ret>>

\* ----------------------------------------------------------------------
\* Bounds
\* ----------------------------------------------------------------------

\* Most packages in one batch handed to the lint command.
MaxBatch == 2

\* Most lines of output of one run of the external lint tool.
MaxLintLines == 2

\* ----------------------------------------------------------------------
\* Helpers
\* ----------------------------------------------------------------------

Rep(c, n) == [i \in 1..n |-> c]

SeqsUpTo(S, n) == UNION {[1..k -> S] : k \in 0..n}

\* ----------------------------------------------------------------------
\* Program constants
\* ----------------------------------------------------------------------

ZarfPackageConfig == "ZarfPackageConfig"

MaxNameLen == 63

\* ----------------------------------------------------------------------
\* Strings (package strings): a string is a sequence of characters
\* ----------------------------------------------------------------------

\* strings.Contains
Contains(s, sub) ==
    \E i \in 0..(Len(s) - Len(sub)) : SubSeq(s, i + 1, i + Len(sub)) = sub

\* strings.HasPrefix
HasPrefix(s, p) == Len(s) >= Len(p) /\ SubSeq(s, 1, Len(p)) = p

\* strings.Index: the first position of sub in s, 0 when absent
Index(s, sub) ==
    IF Contains(s, sub)
    THEN CHOOSE i \in 1..(Len(s) - Len(sub) + 1) :
            /\ SubSeq(s, i, i + Len(sub) - 1) = sub
            /\ \A j \in 1..(i - 1) : SubSeq(s, j, j + Len(sub) - 1) # sub
    ELSE 0

\* strings.Count for a one-character separator
Count(s, c) == Cardinality({i \in 1..Len(s) : s[i] = c})

Whitespace == {" ", "\t"}

RECURSIVE TrimLeft(_, _)
TrimLeft(s, cut) ==
    IF s # <<>> /\ s[1] \in cut THEN TrimLeft(Tail(s), cut) ELSE s

RECURSIVE TrimRight(_, _)
TrimRight(s, cut) ==
    IF s # <<>> /\ s[Len(s)] \in cut
    THEN TrimRight(SubSeq(s, 1, Len(s) - 1), cut)
    ELSE s

\* strings.TrimSpace
TrimSpace(s) == TrimRight(TrimLeft(s, Whitespace), Whitespace)

\* strings.Trim(s, cutset)
Trim(s, cut) == TrimRight(TrimLeft(s, cut), cut)

\* strings.TrimPrefix
TrimPrefix(s, p) == IF HasPrefix(s, p) THEN SubSeq(s, Len(p) + 1, Len(s)) ELSE s

UpperOf ==
    [c \in {"a", "b", "d", "e", "k", "p", "w", "y"} |->
        CASE c = "a" -> "A" [] c = "b" -> "B" [] c = "d" -> "D" [] c = "e" -> "E"
          [] c = "k" -> "K" [] c = "p" -> "P" [] c = "w" -> "W" [] c = "y" -> "Y"]

\* strings.ToLower, over the letters the model's strings use
ToLower(s) ==
    [i \in 1..Len(s) |->
        IF \E c \in DOMAIN UpperOf : UpperOf[c] = s[i]
        THEN CHOOSE c \in DOMAIN UpperOf : UpperOf[c] = s[i]
        ELSE s[i]]

\* ----------------------------------------------------------------------
\* The manifest model (pkg/util): ZarfYaml and its components
\* ----------------------------------------------------------------------

NoScripts == [Prepare |-> <<>>, Before |-> <<>>, After |-> <<>>]

\* A ZarfComponent with the given name and depsWith, every other field at
\* its zero value.
ZarfComponent(name, depsWith) ==
    [Name |-> name, Default |-> FALSE, Required |-> FALSE, DepsWith |-> depsWith,
     Files |-> <<>>, Charts |-> <<>>, Manifests |-> <<>>, Images |-> <<>>,
     Repos |-> <<>>, DataInjections |-> <<>>, Scripts |-> NoScripts]

\* A ZarfYaml value.
ZarfYaml(kind, name, description, version, components) ==
    [Kind |-> kind,
     Metadata |-> [Name |-> name, Description |-> description, Version |-> version],
     Components |-> components]

app == <<"a", "p", "p">>
web == <<"w", "e", "b">>
db == <<"d", "b">>

PinnedImage == <<"g", "h", "c", "r", ".", "i", "o", "/", "a", "@", "s", "h", "a", "2", "5", "6", ":", "a", "b">>
TaggedImage == <<"n", "g", "i", "n", "x", ":", "1", ".", "2", "1">>

\* ----------------------------------------------------------------------
\* The revisions of zarf.yaml the model draws from.  Each has its text, line
\* by line, and the value yaml.Unmarshal gives for that text.
\* ----------------------------------------------------------------------

\* Good: a complete manifest with one component and a pinned image
GoodText ==
    <<<<"k", "i", "n", "d", ":", " ", "Z", "a", "r", "f", "P", "a", "c", "k", "a", "g", "e", "C", "o", "n", "f", "i", "g">>,
       <<"m", "e", "t", "a", "d", "a", "t", "a", ":">>,
       <<" ", " ", "n", "a", "m", "e", ":", " ", "a", "p", "p">>,
       <<" ", " ", "d", "e", "s", "c", "r", "i", "p", "t", "i", "o", "n", ":", " ", "d">>,
       <<" ", " ", "v", "e", "r", "s", "i", "o", "n", ":", " ", "1", ".", "0", ".", "0">>,
       <<"c", "o", "m", "p", "o", "n", "e", "n", "t", "s", ":">>,
       <<"-", " ", "n", "a", "m", "e", ":", " ", "w", "e", "b">>,
       <<" ", " ", "i", "m", "a", "g", "e", "s", ":">>,
       <<" ", " ", "-", " ", "g", "h", "c", "r", ".", "i", "o", "/", "a", "@", "s", "h", "a", "2", "5", "6", ":", "a", "b">>>>

GoodYaml ==
    ZarfYaml(ZarfPackageConfig, app, "d", "1.0.0",
        <<[ZarfComponent(web, <<>>) EXCEPT !.Images = <<PinnedImage>>]>>)

\* Edited: Good with another description and the same version
EditedText ==
    <<<<"k", "i", "n", "d", ":", " ", "Z", "a", "r", "f", "P", "a", "c", "k", "a", "g", "e", "C", "o", "n", "f", "i", "g">>,
       <<"m", "e", "t", "a", "d", "a", "t", "a", ":">>,
       <<" ", " ", "n", "a", "m", "e", ":", " ", "a", "p", "p">>,
       <<" ", " ", "d", "e", "s", "c", "r", "i", "p", "t", "i", "o", "n", ":", " ", "e">>,
       <<" ", " ", "v", "e", "r", "s", "i", "o", "n", ":", " ", "1", ".", "0", ".", "0">>,
       <<"c", "o", "m", "p", "o", "n", "e", "n", "t", "s", ":">>,
       <<"-", " ", "n", "a", "m", "e", ":", " ", "w", "e", "b">>,
       <<" ", " ", "i", "m", "a", "g", "e", "s", ":">>,
       <<" ", " ", "-", " ", "g", "h", "c", "r", ".", "i", "o", "/", "a", "@", "s", "h", "a", "2", "5", "6", ":", "a", "b">>>>

EditedYaml ==
    ZarfYaml(ZarfPackageConfig, app, "e", "1.0.0",
        <<[ZarfComponent(web, <<>>) EXCEPT !.Images = <<PinnedImage>>]>>)

\* Bumped: Edited with the version increased
BumpedText ==
    <<<<"k", "i", "n", "d", ":", " ", "Z", "a", "r", "f", "P", "a", "c", "k", "a", "g", "e", "C", "o", "n", "f", "i", "g">>,
       <<"m", "e", "t", "a", "d", "a", "t", "a", ":">>,
       <<" ", " ", "n", "a", "m", "e", ":", " ", "a", "p", "p">>,
       <<" ", " ", "d", "e", "s", "c", "r", "i", "p", "t", "i", "o", "n", ":", " ", "e">>,
       <<" ", " ", "v", "e", "r", "s", "i", "o", "n", ":", " ", "1", ".", "1", ".", "0">>,
       <<"c", "o", "m", "p", "o", "n", "e", "n", "t", "s", ":">>,
       <<"-", " ", "n", "a", "m", "e", ":", " ", "w", "e", "b">>,
       <<" ", " ", "i", "m", "a", "g", "e", "s", ":">>,
       <<" ", " ", "-", " ", "g", "h", "c", "r", ".", "i", "o", "/", "a", "@", "s", "h", "a", "2", "5", "6", ":", "a", "b">>>>

BumpedYaml ==
    ZarfYaml(ZarfPackageConfig, app, "e", "1.1.0",
        <<[ZarfComponent(web, <<>>) EXCEPT !.Images = <<PinnedImage>>]>>)

\* NoVersion: no metadata.version, one component with a tagged image
NoVersionText ==
    <<<<"k", "i", "n", "d", ":", " ", "Z", "a", "r", "f", "P", "a", "c", "k", "a", "g", "e", "C", "o", "n", "f", "i", "g">>,
       <<"m", "e", "t", "a", "d", "a", "t", "a", ":">>,
       <<" ", " ", "n", "a", "m", "e", ":", " ", "a", "p", "p">>,
       <<" ", " ", "d", "e", "s", "c", "r", "i", "p", "t", "i", "o", "n", ":", " ", "d">>,
       <<"c", "o", "m", "p", "o", "n", "e", "n", "t", "s", ":">>,
       <<"-", " ", "n", "a", "m", "e", ":", " ", "w", "e", "b">>,
       <<" ", " ", "i", "m", "a", "g", "e", "s", ":">>,
       <<" ", " ", "-", " ", "n", "g", "i", "n", "x", ":", "1", ".", "2", "1">>>>

NoVersionYaml ==
    ZarfYaml(ZarfPackageConfig, app, "d", "",
        <<[ZarfComponent(web, <<>>) EXCEPT !.Images = <<TaggedImage>>]>>)

\* Bare: no version, no description, no components
BareText ==
    <<<<"k", "i", "n", "d", ":", " ", "Z", "a", "r", "f", "P", "a", "c", "k", "a", "g", "e", "C", "o", "n", "f", "i", "g">>,
       <<"m", "e", "t", "a", "d", "a", "t", "a", ":">>,
       <<" ", " ", "n", "a", "m", "e", ":", " ", "a", "p", "p">>>>

BareYaml ==
    ZarfYaml(ZarfPackageConfig, app, "", "", <<>>)

\* Duplicate: two components with the same name
DuplicateText ==
    <<<<"k", "i", "n", "d", ":", " ", "Z", "a", "r", "f", "P", "a", "c", "k", "a", "g", "e", "C", "o", "n", "f", "i", "g">>,
       <<"m", "e", "t", "a", "d", "a", "t", "a", ":">>,
       <<" ", " ", "n", "a", "m", "e", ":", " ", "a", "p", "p">>,
       <<" ", " ", "d", "e", "s", "c", "r", "i", "p", "t", "i", "o", "n", ":", " ", "d">>,
       <<" ", " ", "v", "e", "r", "s", "i", "o", "n", ":", " ", "1", ".", "0", ".", "0">>,
       <<"c", "o", "m", "p", "o", "n", "e", "n", "t", "s", ":">>,
       <<"-", " ", "n", "a", "m", "e", ":", " ", "w", "e", "b">>,
       <<" ", " ", "i", "m", "a", "g", "e", "s", ":">>,
       <<" ", " ", "-", " ", "g", "h", "c", "r", ".", "i", "o", "/", "a", "@", "s", "h", "a", "2", "5", "6", ":", "a", "b">>,
       <<"-", " ", "n", "a", "m", "e", ":", " ", "w", "e", "b">>,
       <<" ", " ", "r", "e", "q", "u", "i", "r", "e", "d", ":", " ", "t", "r", "u", "e">>,
       <<" ", " ", "d", "e", "f", "a", "u", "l", "t", ":", " ", "t", "r", "u", "e">>>>

DuplicateYaml ==
    ZarfYaml(ZarfPackageConfig, app, "d", "1.0.0",
        <<[ZarfComponent(web, <<>>) EXCEPT !.Images = <<PinnedImage>>],
          [ZarfComponent(web, <<>>) EXCEPT !.Required = TRUE, !.Default = TRUE]>>)

\* Cyclic: a self-dependency, a cycle web -> db -> web and a missing target
CyclicText ==
    <<<<"k", "i", "n", "d", ":", " ", "Z", "a", "r", "f", "P", "a", "c", "k", "a", "g", "e", "C", "o", "n", "f", "i", "g">>,
       <<"m", "e", "t", "a", "d", "a", "t", "a", ":">>,
       <<" ", " ", "n", "a", "m", "e", ":", " ", "a", "p", "p">>,
       <<" ", " ", "d", "e", "s", "c", "r", "i", "p", "t", "i", "o", "n", ":", " ", "d">>,
       <<" ", " ", "v", "e", "r", "s", "i", "o", "n", ":", " ", "1", ".", "0", ".", "0">>,
       <<"c", "o", "m", "p", "o", "n", "e", "n", "t", "s", ":">>,
       <<"-", " ", "n", "a", "m", "e", ":", " ", "w", "e", "b">>,
       <<" ", " ", "d", "e", "p", "s", "W", "i", "t", "h", ":">>,
       <<" ", " ", "-", " ", "w", "e", "b">>,
       <<" ", " ", "-", " ", "d", "b">>,
       <<"-", " ", "n", "a", "m", "e", ":", " ", "d", "b">>,
       <<" ", " ", "d", "e", "p", "s", "W", "i", "t", "h", ":">>,
       <<" ", " ", "-", " ", "w", "e", "b">>,
       <<" ", " ", "-", " ", "x">>>>

CyclicYaml ==
    ZarfYaml(ZarfPackageConfig, app, "d", "1.0.0",
        <<ZarfComponent(web, <<web, db>>), ZarfComponent(db, <<web, <<"x">>>>)>>)

\* WrongKind: another kind and no name
WrongKindText ==
    <<<<"k", "i", "n", "d", ":", " ", "O", "t", "h", "e", "r">>,
       <<"m", "e", "t", "a", "d", "a", "t", "a", ":">>,
       <<" ", " ", "v", "e", "r", "s", "i", "o", "n", ":", " ", "1", ".", "0", ".", "0">>>>

WrongKindYaml ==
    ZarfYaml("Other", <<>>, "", "1.0.0", <<>>)

\* Broken: text that is not a YAML document of the manifest's shape
BrokenText ==
    <<<<"k", "i", "n", "d", ":", " ", "[">>>>

\* Heavy: a component that every heuristic pass has something to say about
HeavyText ==
    <<<<"k", "i", "n", "d", ":", " ", "Z", "a", "r", "f", "P", "a", "c", "k", "a", "g", "e", "C", "o", "n", "f", "i", "g">>,
       <<"m", "e", "t", "a", "d", "a", "t", "a", ":">>,
       <<" ", " ", "n", "a", "m", "e", ":", " ", "a", "p", "p">>,
       <<" ", " ", "d", "e", "s", "c", "r", "i", "p", "t", "i", "o", "n", ":", " ", "d">>,
       <<" ", " ", "v", "e", "r", "s", "i", "o", "n", ":", " ", "2", ".", "0", ".", "0">>,
       <<"c", "o", "m", "p", "o", "n", "e", "n", "t", "s", ":">>,
       <<"-", " ", "n", "a", "m", "e", ":", " ", "W", "e", "b", " ", "A", "p", "p">>,
       <<" ", " ", "m", "a", "n", "i", "f", "e", "s", "t", "s", ":">>,
       <<" ", " ", "-", " ", "n", "a", "m", "e", ":", " ", "m">>,
       <<" ", " ", " ", " ", "f", "i", "l", "e", "s", ":">>,
       <<" ", " ", " ", " ", "-", " ", "m", ".", "y", "a", "m", "l">>,
       <<" ", " ", " ", " ", "-", " ", "g", "o", "n", "e", ".", "y", "a", "m", "l">>,
       <<" ", " ", "c", "h", "a", "r", "t", "s", ":">>,
       <<" ", " ", "-", " ", "n", "a", "m", "e", ":", " ", "c">>,
       <<" ", " ", " ", " ", "v", "a", "l", "u", "e", "s", "F", "i", "l", "e", "s", ":">>,
       <<" ", " ", " ", " ", "-", " ", "v", ".", "y", "a", "m", "l">>,
       <<" ", " ", "-", " ", "n", "a", "m", "e", ":", " ", "n">>,
       <<" ", " ", "f", "i", "l", "e", "s", ":">>,
       <<" ", " ", "-", " ", "s", "o", "u", "r", "c", "e", ":", " ", "b", "i", "g">>,
       <<" ", " ", " ", " ", "t", "a", "r", "g", "e", "t", ":", " ", "/", "b">>,
       <<" ", " ", "s", "c", "r", "i", "p", "t", "s", ":">>,
       <<" ", " ", " ", " ", "b", "e", "f", "o", "r", "e", ":">>,
       <<" ", " ", " ", " ", "-", " ", "K", "E", "Y", "=", "1">>,
       <<" ", " ", "i", "m", "a", "g", "e", "s", ":">>,
       <<" ", " ", "-", " ", "n", "g", "i", "n", "x", ":", "1", ".", "2", "1">>>>

HeavyYaml ==
    ZarfYaml(ZarfPackageConfig, app, "d", "2.0.0",
        <<[ZarfComponent(<<"W", "e", "b", " ", "A", "p", "p">>, <<>>) EXCEPT
             !.Manifests = <<[Name |-> "m", Files |-> <<"m.yaml", "gone.yaml">>]>>,
             !.Charts = <<[Name |-> "c", ValuesFiles |-> <<"v.yaml">>],
                          [Name |-> "n", ValuesFiles |-> <<>>]>>,
             !.Files = <<[Source |-> "big", Target |-> "/b"]>>,
             !.Scripts = [NoScripts EXCEPT !.Before = <<<<"K", "E", "Y", "=", "1">>>>],
             !.Images = <<TaggedImage>>]>>)

Revisions ==
    <<[text |-> GoodText, parses |-> TRUE, yaml |-> GoodYaml],
      [text |-> EditedText, parses |-> TRUE, yaml |-> EditedYaml],
      [text |-> BumpedText, parses |-> TRUE, yaml |-> BumpedYaml],
      [text |-> NoVersionText, parses |-> TRUE, yaml |-> NoVersionYaml],
      [text |-> BareText, parses |-> TRUE, yaml |-> BareYaml],
      [text |-> DuplicateText, parses |-> TRUE, yaml |-> DuplicateYaml],
      [text |-> CyclicText, parses |-> TRUE, yaml |-> CyclicYaml],
      [text |-> WrongKindText, parses |-> TRUE, yaml |-> WrongKindYaml],
      [text |-> BrokenText, parses |-> FALSE],
      [text |-> HeavyText, parses |-> TRUE, yaml |-> HeavyYaml]>>

RevisionIds == DOMAIN Revisions

GoodId == CHOOSE i \in RevisionIds : Revisions[i].text = GoodText

EditedId == CHOOSE i \in RevisionIds : Revisions[i].text = EditedText

BumpedId == CHOOSE i \in RevisionIds : Revisions[i].text = BumpedText

NoVersionId == CHOOSE i \in RevisionIds : Revisions[i].text = NoVersionText

BareId == CHOOSE i \in RevisionIds : Revisions[i].text = BareText

DuplicateId == CHOOSE i \in RevisionIds : Revisions[i].text = DuplicateText

CyclicId == CHOOSE i \in RevisionIds : Revisions[i].text = CyclicText

WrongKindId == CHOOSE i \in RevisionIds : Revisions[i].text = WrongKindText

BrokenId == CHOOSE i \in RevisionIds : Revisions[i].text = BrokenText

HeavyId == CHOOSE i \in RevisionIds : Revisions[i].text = HeavyText

\* ----------------------------------------------------------------------
\* The world outside the validator
\*
\* A package directory is a record
\*   [path, hasManifest, content, prev]
\* content is the revision of zarf.yaml in the working tree (0 when the
\* directory has no zarf.yaml) and prev the revision `git show HEAD~1:...`
\* prints (0 when git cannot show one).  One run of the external lint tool is
\*   [available, exitErr, output]
\* available: `zarf version` runs; exitErr: `zarf dev lint` exits non-zero;
\* output: the lines of its combined output.
\* ----------------------------------------------------------------------

NoRevision == 0

\* Files a manifest can refer to, relative to the package directory.
AuxFiles ==
    [f \in {"m.yaml", "v.yaml", "big", "small", "edge"} |->
        CASE f = "m.yaml" -> [size |-> 40, text |-> <<"p", "r", "i", "v", "i", "l", "e", "g", "e", "d", ":", " ", "t", "r", "u", "e", " ", "h", "o", "s", "t", "P", "I", "D", ":", " ", "t", "r", "u", "e">>]
          [] f = "v.yaml" -> [size |-> 20, text |-> <<"l", "i", "m", "i", "t", "s", ":", " ", "x">>]
          [] f = "big" -> [size |-> 101 * 1024 * 1024, text |-> <<>>]
          [] f = "small" -> [size |-> 100 * 1024 * 1024, text |-> <<>>]
          [] f = "edge" -> [size |-> 100 * 1024 * 1024 + 1, text |-> <<>>]]

\* os.Stat / os.ReadFile of a file referred to by the manifest
StatAux(file) ==
    IF file \in DOMAIN AuxFiles
    THEN [err |-> FALSE, size |-> AuxFiles[file].size, text |-> AuxFiles[file].text]
    ELSE [err |-> TRUE]

\* IsZarfPackage: zarf.yaml exists directly inside the directory
IsZarfPackage(pkg) == pkg.hasManifest

\* os.ReadFile of <packagePath>/zarf.yaml
ReadFile(pkg) ==
    IF pkg.hasManifest
    THEN [err |-> FALSE, text |-> Revisions[pkg.content].text]
    ELSE [err |-> TRUE]

\* util.UnmarshalZarfYaml: the value yaml.Unmarshal gives for the text
UnmarshalZarfYaml(text) ==
    LET i == CHOOSE j \in RevisionIds : Revisions[j].text = text
    IN  IF Revisions[i].parses
        THEN [err |-> FALSE, zarfYaml |-> Revisions[i].yaml]
        ELSE [err |-> TRUE]

\* util.ReadZarfYaml
ReadZarfYaml(pkg) ==
    LET file == ReadFile(pkg)
    IN  IF file.err THEN [err |-> TRUE] ELSE UnmarshalZarfYaml(file.text)

\* executor.RunProcessAndCaptureOutput("git", "show", "HEAD~1:<path>/zarf.yaml")
GitShowPrevious(pkg) ==
    IF pkg.prev = NoRevision
    THEN [err |-> TRUE, out |-> <<>>]
    ELSE [err |-> FALSE, out |-> Revisions[pkg.prev].text]

\* executor.RunProcessAndCaptureOutput("cat", "<path>/zarf.yaml"); its error
\* is dropped by the caller.
CatCurrent(pkg) ==
    IF pkg.hasManifest THEN Revisions[pkg.content].text ELSE <<>>

\* ----------------------------------------------------------------------
\* ValidationResult
\* ----------------------------------------------------------------------

NewResult(path, valid) ==
    [PackagePath |-> path, Valid |-> valid, Errors |-> <<>>, Warnings |-> <<>>]

AddError(result, msg) == [result EXCEPT !.Errors = Append(@, msg)]

AddWarning(result, msg) == [result EXCEPT !.Warnings = Append(@, msg)]

SetInvalid(result) == [result EXCEPT !.Valid = FALSE]

\* ----------------------------------------------------------------------
\* validateVersionIncrement
\* ----------------------------------------------------------------------

MsgNoPrevious == <<"Could not retrieve previous package version for comparison">>
MsgBadPrevious == <<"Could not parse previous package version for comparison">>
MsgNotIncremented(version) ==
    <<"Package content changed but version not incremented (still %s)", version>>

\* The comparison of the versions and of the contents, once both revisions
\* have been read.
CompareRevisions(pkg, result, currentContent, previous, previousZarf) ==
    LET currentYamlStr == CatCurrent(pkg)
    IN  IF /\ currentContent.zarfYaml.Metadata.Version
                = previousZarf.zarfYaml.Metadata.Version
           /\ currentYamlStr # previous.out
        THEN SetInvalid(AddError(result,
                MsgNotIncremented(currentContent.zarfYaml.Metadata.Version)))
        ELSE result

\* A pass that reports an unchanged version and leaves Valid alone.
validateVersionIncrement_KeepsValid(pkg, result) ==
    LET currentContent == ReadZarfYaml(pkg)
        previous == GitShowPrevious(pkg)
        previousZarf == UnmarshalZarfYaml(previous.out)
        compared == CompareRevisions(pkg, result, currentContent, previous, previousZarf)
    IN  IF currentContent.err
        THEN [err |-> TRUE, result |-> result]
        ELSE IF previous.err
        THEN [err |-> FALSE, result |-> AddWarning(result, MsgNoPrevious)]
        ELSE IF previousZarf.err
        THEN [err |-> FALSE, result |-> AddWarning(result, MsgBadPrevious)]
        ELSE [err |-> FALSE, result |-> [compared EXCEPT !.Valid = result.Valid]]

\* A pass that gives up when there is no previous revision to compare with.
validateVersionIncrement_FailsWithoutPrevious(pkg, result) ==
    LET currentContent == ReadZarfYaml(pkg)
        previous == GitShowPrevious(pkg)
        previousZarf == UnmarshalZarfYaml(previous.out)
    IN  IF currentContent.err \/ previous.err \/ previousZarf.err
        THEN [err |-> TRUE, result |-> result]
        ELSE [err |-> FALSE,
              result |-> CompareRevisions(pkg, result, currentContent, previous,
                                          previousZarf)]

validateVersionIncrement(pkg, result) ==
    LET currentContent == ReadZarfYaml(pkg)
        previous == GitShowPrevious(pkg)
        previousZarf == UnmarshalZarfYaml(previous.out)
    IN  IF currentContent.err
        THEN [err |-> TRUE, result |-> result]
        ELSE IF previous.err
        THEN [err |-> FALSE, result |-> AddWarning(result, MsgNoPrevious)]
        ELSE IF previousZarf.err
        THEN [err |-> FALSE, result |-> AddWarning(result, MsgBadPrevious)]
        ELSE [err |-> FALSE,
              result |-> CompareRevisions(pkg, result, currentContent, previous,
                                          previousZarf)]

\* ----------------------------------------------------------------------
\* validateImagePinning: a scan of the manifest text, line by line
\* ----------------------------------------------------------------------

MsgNotPinned(image) == <<"Image not pinned with digest - %s", image>>

Quotes == {"\"", "'"}

\* The test applied to a reference: it has a tag separator, no digest and is
\* no variable reference.
IsUnpinned(image) ==
    /\ Contains(image, <<":">>)
    /\ ~Contains(image, <<"@", "s", "h", "a", "2", "5", "6", ":">>)
    /\ ~HasPrefix(image, <<"{", "{">>)
    /\ ~HasPrefix(image, <<"$", "{">>)

\* strings.Split(line, "image:")[1]: the text between the first and the
\* second occurrence of the separator
AfterImageKey(line) ==
    LET sep == <<"i", "m", "a", "g", "e", ":">>
        rest == SubSeq(line, Index(line, sep) + Len(sep), Len(line))
    IN  IF Contains(rest, sep) THEN SubSeq(rest, 1, Index(rest, sep) - 1) ELSE rest

\* One iteration of the loop over the lines: st is [inImagesSection, result].
PinningStep(st, originalLine) ==
    LET line == TrimSpace(originalLine)
        topLevel == /\ ~HasPrefix(originalLine, <<" ">>)
                    /\ ~HasPrefix(originalLine, <<"\t">>)
                    /\ Contains(line, <<":">>)
        inSection == IF topLevel THEN FALSE ELSE st.inImagesSection
        imageName == Trim(TrimSpace(TrimPrefix(line, <<"-", " ">>)), Quotes)
        r1 == IF inSection /\ HasPrefix(line, <<"-", " ">>) /\ IsUnpinned(imageName)
              THEN AddWarning(st.result, MsgNotPinned(imageName))
              ELSE st.result
        imagePart == Trim(TrimSpace(AfterImageKey(line)), Quotes)
        r2 == IF Contains(line, <<"i", "m", "a", "g", "e", ":">>) /\ IsUnpinned(imagePart)
              THEN AddWarning(r1, MsgNotPinned(imagePart))
              ELSE r1
    IN  IF Contains(line, <<"i", "m", "a", "g", "e", "s", ":">>)
        THEN [inImagesSection |-> TRUE, result |-> st.result]
        ELSE [inImagesSection |-> inSection, result |-> r2]

RECURSIVE PinningLoop(_, _, _)
PinningLoop(lines, i, st) ==
    IF i > Len(lines) THEN st ELSE PinningLoop(lines, i + 1, PinningStep(st, lines[i]))

\* validateImagePinning once os.ReadFile has returned content, which is
\* [err, text], text being the lines of the file.
validateImagePinningOf(content, result) ==
    IF content.err
    THEN [err |-> TRUE, result |-> result]
    ELSE [err |-> FALSE,
          result |-> PinningLoop(content.text, 1,
                        [inImagesSection |-> FALSE, result |-> result]).result]

validateImagePinning(pkg, result) == validateImagePinningOf(ReadFile(pkg), result)

\* ----------------------------------------------------------------------
\* validateBasic: the fallback validation
\* ----------------------------------------------------------------------

MsgParseFailed == <<"Failed to parse zarf.yaml: %v">>
MsgMissingKind == <<"Missing 'kind' field in zarf.yaml">>
MsgInvalidKind(kind) == <<"Invalid kind '%s', expected 'ZarfPackageConfig'", kind>>
MsgMissingName == <<"Missing package name in metadata">>
MsgNoVersion == <<"No version specified in metadata">>
MsgNoDescription == <<"No description provided in metadata">>
MsgNameTooLong == <<"Package name must be 63 characters or less">>

\* A kind check that lets an absent kind through.
BasicKind_AcceptsMissingKind(zarfYaml, result) ==
    IF zarfYaml.Kind # "" /\ zarfYaml.Kind # ZarfPackageConfig
    THEN SetInvalid(AddError(result, MsgInvalidKind(zarfYaml.Kind)))
    ELSE result

\* The kind check.
BasicKind(zarfYaml, result) ==
    IF zarfYaml.Kind = ""
    THEN SetInvalid(AddError(result, MsgMissingKind))
    ELSE IF zarfYaml.Kind # ZarfPackageConfig
    THEN SetInvalid(AddError(result, MsgInvalidKind(zarfYaml.Kind)))
    ELSE result

\* The checks of metadata.name, metadata.version and metadata.description.
BasicMetadata(zarfYaml, result) ==
    LET meta == zarfYaml.Metadata
        r1 == IF meta.Name = <<>>
              THEN SetInvalid(AddError(result, MsgMissingName))
              ELSE result
        r2 == IF meta.Version = "" THEN AddWarning(r1, MsgNoVersion) ELSE r1
        r3 == IF meta.Description = "" THEN AddWarning(r2, MsgNoDescription) ELSE r2
    IN  IF meta.Name # <<>> /\ Len(meta.Name) > MaxNameLen
        THEN SetInvalid(AddError(r3, MsgNameTooLong))
        ELSE r3

\* validateBasic once the manifest has been read: read is what
\* util.ReadZarfYaml returned.
validateBasicOf(path, read) ==
    IF read.err
    THEN [err |-> FALSE,
          result |-> AddError(SetInvalid(NewResult(path, TRUE)), MsgParseFailed)]
    ELSE [err |-> FALSE,
          result |-> BasicMetadata(read.zarfYaml,
                        BasicKind(read.zarfYaml, NewResult(path, TRUE)))]

validateBasic(pkg) == validateBasicOf(pkg.path, ReadZarfYaml(pkg))

\* ----------------------------------------------------------------------
\* validateComponents
\* ----------------------------------------------------------------------

MsgNoComponents == <<"Package has no components defined">>
MsgDuplicate(name) == <<"Duplicate component name: %s", name>>
MsgNaming(name) == <<"Component name '%s' doesn't follow naming conventions", name>>
MsgRedundant(name) == <<"Component '%s' is both required and default (redundant)", name>>
MsgEmpty(name) == <<"Component '%s' appears to be empty", name>>

isValidComponentName(name) ==
    /\ ~Contains(name, <<" ">>)
    /\ ToLower(name) = name

\* An iteration that does not look the name up among the names seen.
ComponentStep_NoDuplicateCheck(st, component) ==
    [componentNames |-> st.componentNames \cup {component.Name},
     result |-> IF ~isValidComponentName(component.Name)
                THEN AddWarning(st.result, MsgNaming(component.Name))
                ELSE st.result]

\* One iteration of the loop over the components: st is
\* [componentNames, result].
ComponentStep(st, component) ==
    LET r1 == IF component.Name \in st.componentNames
              THEN AddError(st.result, MsgDuplicate(component.Name))
              ELSE st.result
        r2 == IF ~isValidComponentName(component.Name)
              THEN AddWarning(r1, MsgNaming(component.Name))
              ELSE r1
        r3 == IF component.Required /\ component.Default
              THEN AddWarning(r2, MsgRedundant(component.Name))
              ELSE r2
        r4 == IF /\ Len(component.Files) = 0 /\ Len(component.Charts) = 0
                 /\ Len(component.Manifests) = 0 /\ Len(component.Images) = 0
                 /\ Len(component.Repos) = 0 /\ Len(component.DataInjections) = 0
              THEN AddWarning(r3, MsgEmpty(component.Name))
              ELSE r3
    IN  [componentNames |-> st.componentNames \cup {component.Name}, result |-> r4]

RECURSIVE ComponentLoop(_, _, _)
ComponentLoop(components, i, st) ==
    IF i > Len(components)
    THEN st
    ELSE ComponentLoop(components, i + 1, ComponentStep(st, components[i]))

\* validateComponents once util.ReadZarfYaml has returned read, which is
\* [err, zarfYaml].
validateComponentsOf(read, result) ==
    IF read.err
    THEN [err |-> TRUE, result |-> result]
    ELSE IF Len(read.zarfYaml.Components) = 0
    THEN [err |-> FALSE, result |-> AddWarning(result, MsgNoComponents)]
    ELSE [err |-> FALSE,
          result |-> ComponentLoop(read.zarfYaml.Components, 1,
                        [componentNames |-> {}, result |-> result]).result]

validateComponents(pkg, result) == validateComponentsOf(ReadZarfYaml(pkg), result)

\* ----------------------------------------------------------------------
\* validateComponentDependencies and hasDependencyCycle
\* ----------------------------------------------------------------------

MsgMissingDep(name, dep) ==
    <<"Component '%s' depends on non-existent component '%s'", name, dep>>
MsgCycle(name, dep) ==
    <<"Circular dependency detected between '%s' and '%s'", name, dep>>
MsgSelfDep(name) == <<"Component '%s' cannot depend on itself", name>>

\* componentMap: the names declared, each with the last component of that
\* name.
ComponentMap(components) ==
    [n \in {components[i].Name : i \in DOMAIN components} |->
        components[CHOOSE i \in DOMAIN components :
            /\ components[i].Name = n
            /\ \A j \in DOMAIN components : components[j].Name = n => j <= i]]

\* The depth-first search; visited is shared by the whole search, so the
\* value returned carries it: [found, visited].
RECURSIVE hasDependencyCycle(_, _, _, _)
RECURSIVE CycleLoop(_, _, _, _, _)

\* A search that follows the first dependency of a component only.
CycleLoop_FirstOnly(start, deps, i, componentMap, visited) ==
    IF i > Len(deps)
    THEN [found |-> FALSE, visited |-> visited]
    ELSE hasDependencyCycle(start, deps[i], componentMap, visited)

CycleLoop(start, deps, i, componentMap, visited) ==
    IF i > Len(deps)
    THEN [found |-> FALSE, visited |-> visited]
    ELSE LET r == hasDependencyCycle(start, deps[i], componentMap, visited)
         IN  IF r.found
             THEN r
             ELSE CycleLoop(start, deps, i + 1, componentMap, r.visited)

hasDependencyCycle(start, current, componentMap, visited) ==
    IF current = start /\ Cardinality(visited) > 0
    THEN [found |-> TRUE, visited |-> visited]
    ELSE IF current \in visited
    THEN [found |-> FALSE, visited |-> visited]
    ELSE IF current \in DOMAIN componentMap
    THEN CycleLoop(start, componentMap[current].DepsWith, 1, componentMap,
                   visited \cup {current})
    ELSE [found |-> FALSE, visited |-> visited \cup {current}]

\* A first inner loop that does not look the dependency up.
RECURSIVE DepLoop_SkipsMissing(_, _, _, _)
DepLoop_SkipsMissing(component, i, componentMap, result) ==
    IF i > Len(component.DepsWith)
    THEN result
    ELSE LET dep == component.DepsWith[i]
         IN  DepLoop_SkipsMissing(component, i + 1, componentMap,
                IF hasDependencyCycle(component.Name, dep, componentMap, {}).found
                THEN AddError(result, MsgCycle(component.Name, dep))
                ELSE result)

\* The first inner loop, over the depsWith of one component.
RECURSIVE DepLoop(_, _, _, _)
DepLoop(component, i, componentMap, result) ==
    IF i > Len(component.DepsWith)
    THEN result
    ELSE LET dep == component.DepsWith[i]
             r1 == IF dep \notin DOMAIN componentMap
                   THEN AddError(result, MsgMissingDep(component.Name, dep))
                   ELSE result
             r2 == IF hasDependencyCycle(component.Name, dep, componentMap, {}).found
                   THEN AddError(r1, MsgCycle(component.Name, dep))
                   ELSE r1
         IN  DepLoop(component, i + 1, componentMap, r2)

\* The second inner loop: self-dependencies.
RECURSIVE SelfDepLoop(_, _, _)
SelfDepLoop(component, i, result) ==
    IF i > Len(component.DepsWith)
    THEN result
    ELSE SelfDepLoop(component, i + 1,
            IF component.DepsWith[i] = component.Name
            THEN AddError(result, MsgSelfDep(component.Name))
            ELSE result)

RECURSIVE DependencyLoop(_, _, _, _)
DependencyLoop(components, i, componentMap, result) ==
    IF i > Len(components)
    THEN result
    ELSE DependencyLoop(components, i + 1, componentMap,
            SelfDepLoop(components[i], 1,
                DepLoop(components[i], 1, componentMap, result)))

\* validateComponentDependencies once util.ReadZarfYaml has returned read,
\* which is [err, zarfYaml].
validateComponentDependenciesOf(read, result) ==
    IF read.err
    THEN [err |-> TRUE, result |-> result]
    ELSE IF Len(read.zarfYaml.Components) = 0
    THEN [err |-> FALSE, result |-> result]
    ELSE [err |-> FALSE,
          result |-> DependencyLoop(read.zarfYaml.Components, 1,
                        ComponentMap(read.zarfYaml.Components), result)]

validateComponentDependencies(pkg, result) ==
    validateComponentDependenciesOf(ReadZarfYaml(pkg), result)

\* ----------------------------------------------------------------------
\* validateSecurityBestPractices
\* ----------------------------------------------------------------------

MsgAnalyzeFailed(file) == <<"Failed to analyze manifest security for %s: %v", file>>
MsgPrivileged(name) == <<"Component '%s' manifest may use privileged containers", name>>
MsgHostNetwork(name) == <<"Component '%s' manifest uses host networking", name>>
MsgHostPid(name) == <<"Component '%s' manifest uses host PID or IPC", name>>
MsgSecrets(name) == <<"Component '%s' script may contain hardcoded secrets", name>>
MsgUntrusted(name, image) ==
    <<"Component '%s' uses image from potentially untrusted registry: %s", name, image>>

\* Folds a sequence into a result: Step(result, element) for each element in
\* order (a `for ... range` loop that only appends to the result).
RECURSIVE ForEach(_, _, _, _)
ForEach(Step(_, _), items, i, result) ==
    IF i > Len(items) THEN result ELSE ForEach(Step, items, i + 1, Step(result, items[i]))

RECURSIVE Flatten(_)
Flatten(seqs) == IF seqs = <<>> THEN <<>> ELSE Head(seqs) \o Flatten(Tail(seqs))

\* A check that takes a privileged container for an error.
checkManifestSecurity_PrivilegedIsError(file, result, componentName) ==
    LET content == StatAux(file)
        r1 == IF Contains(content.text, <<"p", "r", "i", "v", "i", "l", "e", "g", "e", "d", ":", " ", "t", "r", "u", "e">>)
              THEN SetInvalid(AddError(result, MsgPrivileged(componentName)))
              ELSE result
        r2 == IF Contains(content.text, <<"h", "o", "s", "t", "N", "e", "t", "w", "o", "r", "k", ":", " ", "t", "r", "u", "e">>)
              THEN AddWarning(r1, MsgHostNetwork(componentName))
              ELSE r1
        r3 == IF \/ Contains(content.text, <<"h", "o", "s", "t", "P", "I", "D", ":", " ", "t", "r", "u", "e">>)
                 \/ Contains(content.text, <<"h", "o", "s", "t", "I", "P", "C", ":", " ", "t", "r", "u", "e">>)
              THEN AddWarning(r2, MsgHostPid(componentName))
              ELSE r2
    IN  IF content.err THEN [err |-> TRUE, result |-> result]
        ELSE [err |-> FALSE, result |-> r3]

checkManifestSecurity(file, result, componentName) ==
    LET content == StatAux(file)
        r1 == IF Contains(content.text, <<"p", "r", "i", "v", "i", "l", "e", "g", "e", "d", ":", " ", "t", "r", "u", "e">>)
              THEN AddWarning(result, MsgPrivileged(componentName))
              ELSE result
        r2 == IF Contains(content.text, <<"h", "o", "s", "t", "N", "e", "t", "w", "o", "r", "k", ":", " ", "t", "r", "u", "e">>)
              THEN AddWarning(r1, MsgHostNetwork(componentName))
              ELSE r1
        r3 == IF \/ Contains(content.text, <<"h", "o", "s", "t", "P", "I", "D", ":", " ", "t", "r", "u", "e">>)
                 \/ Contains(content.text, <<"h", "o", "s", "t", "I", "P", "C", ":", " ", "t", "r", "u", "e">>)
              THEN AddWarning(r2, MsgHostPid(componentName))
              ELSE r2
    IN  IF content.err THEN [err |-> TRUE, result |-> result]
        ELSE [err |-> FALSE, result |-> r3]

secretPatterns ==
    {<<"p", "a", "s", "s", "w", "o", "r", "d", "=">>, <<"t", "o", "k", "e", "n", "=">>, <<"s", "e", "c", "r", "e", "t", "=">>, <<"k", "e", "y", "=">>, <<"a", "p", "i", "_", "k", "e", "y">>, <<"a", "w", "s", "_", "a", "c", "c", "e", "s", "s">>}

containsPotentialSecrets(script) ==
    \E pattern \in secretPatterns : Contains(ToLower(script), ToLower(pattern))

isUntrustedRegistry(image) ==
    \/ ~Contains(image, <<"/">>)
    \/ (~Contains(image, <<".">>) /\ Count(image, "/") = 1)
    \/ HasPrefix(image, <<"d", "o", "c", "k", "e", "r", ".", "i", "o", "/">>)
    \/ HasPrefix(image, <<"i", "n", "d", "e", "x", ".", "d", "o", "c", "k", "e", "r", ".", "i", "o", "/">>)

\* The body of the loop over the components.
SecurityStep(result, component) ==
    LET ManifestFile(r, file) ==
            LET c == checkManifestSecurity(file, r, component.Name)
            IN  IF c.err THEN AddWarning(r, MsgAnalyzeFailed(file)) ELSE c.result
        Script(r, script) ==
            IF containsPotentialSecrets(script)
            THEN AddWarning(r, MsgSecrets(component.Name))
            ELSE r
        Image(r, image) ==
            IF isUntrustedRegistry(image)
            THEN AddWarning(r, MsgUntrusted(component.Name, image))
            ELSE r
        files == Flatten([i \in DOMAIN component.Manifests |-> component.Manifests[i].Files])
        allScripts == component.Scripts.Prepare \o component.Scripts.Before
                        \o component.Scripts.After
    IN  ForEach(Image, component.Images, 1,
            ForEach(Script, allScripts, 1,
                ForEach(ManifestFile, files, 1, result)))

validateSecurityBestPractices(pkg, result) ==
    LET read == ReadZarfYaml(pkg)
    IN  IF read.err
        THEN [err |-> TRUE, result |-> result]
        ELSE [err |-> FALSE,
              result |-> ForEach(SecurityStep, read.zarfYaml.Components, 1, result)]

\* ----------------------------------------------------------------------
\* validateResourceConstraints
\* ----------------------------------------------------------------------

LargeFileMB == 100

ManyImages == 10

MsgLargeFile(name, sizeInMB, source) ==
    <<"Component '%s' includes large file (%dMB): %s", name, sizeInMB, source>>
MsgManyImages(name, n) ==
    <<"Component '%s' includes many images (%d) which may impact package size", name, n>>
MsgNoLimits(chart, name) ==
    <<"Chart '%s' in component '%s' may not specify resource limits", chart, name>>

ResourceStep(result, component) ==
    LET File(r, file) ==
            LET stat == StatAux(file.Source)
                sizeInMB == stat.size \div (1024 * 1024)
            IN  IF ~stat.err /\ sizeInMB > LargeFileMB
                THEN AddWarning(r, MsgLargeFile(component.Name, sizeInMB, file.Source))
                ELSE r
        Chart(r, chart) ==
            LET hasResourceLimits ==
                    \E i \in DOMAIN chart.ValuesFiles :
                        LET content == StatAux(chart.ValuesFiles[i])
                        IN  /\ ~content.err
                            /\ \/ Contains(content.text, <<"l", "i", "m", "i", "t", "s", ":">>)
                               \/ Contains(content.text, <<"r", "e", "q", "u", "e", "s", "t", "s", ":">>)
            IN  IF ~hasResourceLimits
                THEN AddWarning(r, MsgNoLimits(chart.Name, component.Name))
                ELSE r
        r1 == ForEach(File, component.Files, 1, result)
        r2 == IF Len(component.Images) > ManyImages
              THEN AddWarning(r1, MsgManyImages(component.Name, Len(component.Images)))
              ELSE r1
    IN  ForEach(Chart, component.Charts, 1, r2)

\* validateResourceConstraints once util.ReadZarfYaml has returned read,
\* which is [err, zarfYaml].
validateResourceConstraintsOf(read, result) ==
    IF read.err
    THEN [err |-> TRUE, result |-> result]
    ELSE [err |-> FALSE,
          result |-> ForEach(ResourceStep, read.zarfYaml.Components, 1, result)]

validateResourceConstraints(pkg, result) ==
    validateResourceConstraintsOf(ReadZarfYaml(pkg), result)

\* ----------------------------------------------------------------------
\* validateWithSDK: the external lint tool and the passes after it
\* ----------------------------------------------------------------------

\* strings.SplitN(line, marker, 2)[1]: the text after the first marker
AfterMarker(line, marker) ==
    SubSeq(line, Index(line, marker) + Len(marker), Len(line))

LooseFailure(line) ==
    \/ Contains(line, <<"E", "R", "R", "O", "R">>) \/ Contains(line, <<"e", "r", "r", "o", "r">>)
    \/ Contains(line, <<"F", "A", "I", "L">>) \/ Contains(line, <<"f", "a", "i", "l">>)

\* One line of the output of a lint run that exited non-zero.
FailedLintLine(result, rawLine) ==
    LET line == TrimSpace(rawLine)
    IN  IF line = <<>> \/ Contains(line, <<"U", "s", "i", "n", "g", " ", "b", "u", "i", "l", "d", " ", "d", "i", "r", "e", "c", "t", "o", "r", "y">>)
        THEN result
        ELSE IF Contains(line, <<" ", "E", "R", "R", " ">>)
        THEN AddError(result, AfterMarker(line, <<" ", "E", "R", "R", " ">>))
        ELSE IF Contains(line, <<" ", "W", "R", "N", " ">>)
        THEN AddWarning(result, AfterMarker(line, <<" ", "W", "R", "N", " ">>))
        ELSE IF LooseFailure(line)
        THEN AddError(result, line)
        ELSE result

\* One line of the output of a lint run that exited zero.
PassedLintLine(result, rawLine) ==
    LET line == TrimSpace(rawLine)
    IN  IF line # <<>> /\ Contains(line, <<" ", "W", "R", "N", " ">>)
        THEN AddWarning(result, AfterMarker(line, <<" ", "W", "R", "N", " ">>))
        ELSE result

\* The result after `zarf dev lint` has run and its output has been read.
LintResult(pkg, tool) ==
    IF tool.exitErr
    THEN ForEach(FailedLintLine, tool.output, 1, SetInvalid(NewResult(pkg.path, TRUE)))
    ELSE ForEach(PassedLintLine, tool.output, 1, NewResult(pkg.path, TRUE))

\* The passes that follow the lint run, in the order of the code; a pass that
\* returns an error ends the chain.  The value is [err, result, trace], trace
\* being the passes entered; with err the function returns nil for the
\* result, and result is here what the failing pass was given.
PassNames ==
    <<"validateVersionIncrement", "validateImagePinning", "validateComponents",
      "validateComponentDependencies", "validateSecurityBestPractices",
      "validateResourceConstraints">>

RunPass(i, pkg, result) ==
    CASE i = 1 -> validateVersionIncrement(pkg, result)
      [] i = 2 -> validateImagePinning(pkg, result)
      [] i = 3 -> validateComponents(pkg, result)
      [] i = 4 -> validateComponentDependencies(pkg, result)
      [] i = 5 -> validateSecurityBestPractices(pkg, result)
      [] i = 6 -> validateResourceConstraints(pkg, result)

\* A chain that ends, without error, at the first pass that finds the
\* result invalid.
RECURSIVE PassChain_StopsWhenInvalid(_, _, _, _)
PassChain_StopsWhenInvalid(i, pkg, result, trace) ==
    LET After(r) ==
            IF r.err
            THEN [err |-> TRUE, result |-> result, trace |-> Append(trace, PassNames[i])]
            ELSE PassChain_StopsWhenInvalid(i + 1, pkg, r.result, Append(trace, PassNames[i]))
    IN  IF i > Len(PassNames) \/ ~result.Valid
        THEN [err |-> FALSE, result |-> result, trace |-> trace]
        ELSE After(RunPass(i, pkg, result))

RECURSIVE PassChain(_, _, _, _)
PassChain(i, pkg, result, trace) ==
    IF i > Len(PassNames)
    THEN [err |-> FALSE, result |-> result, trace |-> trace]
    ELSE LET r == RunPass(i, pkg, result)
         IN  IF r.err
             THEN [err |-> TRUE, result |-> result, trace |-> Append(trace, PassNames[i])]
             ELSE PassChain(i + 1, pkg, r.result, Append(trace, PassNames[i]))

validateWithSDK(pkg, tool) ==
    IF ~tool.available
    THEN [err |-> TRUE, result |-> NewResult(pkg.path, TRUE), trace |-> <<"zarf version">>]
    ELSE PassChain(1, pkg, LintResult(pkg, tool), <<"zarf version", "zarf dev lint">>)

\* ----------------------------------------------------------------------
\* ValidatePackage, ValidatePackages, HasValidationErrors
\* ----------------------------------------------------------------------

MsgNoManifest == <<"Directory does not contain a zarf.yaml file">>
MsgFallback == <<"Zarf CLI validation failed, falling back to basic validation: %v">>
MsgUsedCli == <<"Validated using Zarf CLI">>

\* NewPackageValidator: the value of UseSDK of a new validator
NewPackageValidator == TRUE

\* ValidatePackage on a validator whose UseSDK is useSDK.  The value is
\*   [result, err, UseSDK, trace, local]
\* result and err are what the call returns, UseSDK the flag after the call,
\* trace the external commands run and the passes entered, local the
\* ValidationResult the function built itself (`result` in the code), as it is
\* when the function returns.

\* The return of the result of validateWithSDK.
SdkOutcome(useSDK, pkg, sdk) ==
    [result |-> AddWarning(sdk.result, MsgUsedCli), err |-> FALSE,
     UseSDK |-> useSDK, trace |-> sdk.trace, local |-> NewResult(pkg.path, FALSE)]

\* `return v.validateBasic(packagePath)`, reached with the flag, the trace and
\* the local result given.
BasicOutcome(useSDK, pkg, trace, local) ==
    LET basic == validateBasic(pkg)
    IN  [result |-> basic.result, err |-> basic.err, UseSDK |-> useSDK,
         trace |-> Append(trace, "validateBasic"), local |-> local]

\* A validator that does not consult its flag.
ValidateExisting_IgnoresFlag(useSDK, pkg, tool) ==
    LET sdk == validateWithSDK(pkg, tool)
    IN  IF ~sdk.err
        THEN SdkOutcome(TRUE, pkg, sdk)
        ELSE BasicOutcome(FALSE, pkg, sdk.trace,
                          AddWarning(NewResult(pkg.path, FALSE), MsgFallback))

\* A validator that returns the fallback warning with the result of
\* validateBasic.
ValidateExisting_WarnsOnFallback(useSDK, pkg, tool) ==
    LET Fallback(flag, trace, warned) ==
            [result |-> IF warned
                        THEN AddWarning(validateBasic(pkg).result, MsgFallback)
                        ELSE validateBasic(pkg).result,
             err |-> FALSE, UseSDK |-> flag, trace |-> Append(trace, "validateBasic"),
             local |-> NewResult(pkg.path, FALSE)]
        After(sdk) ==
            IF ~sdk.err
            THEN SdkOutcome(useSDK, pkg, sdk)
            ELSE Fallback(FALSE, sdk.trace, TRUE)
    IN  IF useSDK
        THEN After(validateWithSDK(pkg, tool))
        ELSE Fallback(useSDK, <<>>, FALSE)

\* ValidatePackage past the existence check.
ValidateExisting(useSDK, pkg, tool) ==
    LET local == NewResult(pkg.path, FALSE)
        Fallback(flag, trace, warned) ==
            BasicOutcome(flag, pkg, trace, IF warned THEN AddWarning(local, MsgFallback) ELSE local)
        After(sdk) ==
            IF ~sdk.err
            THEN SdkOutcome(useSDK, pkg, sdk)
            ELSE Fallback(FALSE, sdk.trace, TRUE)
    IN  IF useSDK
        THEN After(validateWithSDK(pkg, tool))
        ELSE Fallback(useSDK, <<>>, FALSE)

\* A ValidatePackage without the existence check.
ValidatePackage_NoExistenceCheck(useSDK, pkg, tool) ==
    ValidateExisting(useSDK, pkg, tool)

ValidatePackage(useSDK, pkg, tool) ==
    LET local == NewResult(pkg.path, FALSE)
    IN  IF ~IsZarfPackage(pkg)
        THEN [result |-> AddError(local, MsgNoManifest), err |-> FALSE,
              UseSDK |-> useSDK, trace |-> <<>>,
              local |-> AddError(local, MsgNoManifest)]
        ELSE ValidateExisting(useSDK, pkg, tool)

\* ValidatePackages: batch is the sequence of [pkg, tool] the calls meet, in
\* order.  The value is [results, err, UseSDK]; with err the function returns
\* nil for the results, here the empty sequence.
RECURSIVE ValidatePackagesFrom(_, _, _, _)
ValidatePackagesFrom(useSDK, batch, i, results) ==
    LET After(r) ==
            IF r.err
            THEN [results |-> <<>>, err |-> TRUE, UseSDK |-> r.UseSDK]
            ELSE ValidatePackagesFrom(r.UseSDK, batch, i + 1, Append(results, r.result))
    IN  IF i > Len(batch)
        THEN [results |-> results, err |-> FALSE, UseSDK |-> useSDK]
        ELSE After(ValidatePackage(useSDK, batch[i].pkg, batch[i].tool))

ValidatePackages(useSDK, batch) == ValidatePackagesFrom(useSDK, batch, 1, <<>>)

\* A HasValidationErrors that looks at the errors instead of Valid.
HasValidationErrors_ByErrors(results) ==
    \E i \in DOMAIN results : Len(results[i].Errors) > 0

HasValidationErrors(results) == \E i \in DOMAIN results : ~results[i].Valid

\* ----------------------------------------------------------------------
\* The lint command
\* ----------------------------------------------------------------------

\* lint: mode is how the packages were selected ("packages", "all" or
\* "changed"), discoveryErr whether FindZarfPackages / FindChangedPackages
\* returned an error, and batch the packages selected, each with the lint run
\* it meets.  The value is [validated, validateErr, results, failed]:
\* validated is whether ValidatePackages was called, validateErr whether it
\* returned an error, results what it returned, and failed whether the
\* command returns an error.
lint(mode, discoveryErr, batch) ==
    LET After(out) ==
            IF out.err
            THEN [validated |-> TRUE, validateErr |-> TRUE, results |-> <<>>,
                  failed |-> TRUE]
            ELSE [validated |-> TRUE, validateErr |-> FALSE, results |-> out.results,
                  failed |-> HasValidationErrors(out.results)]
    IN  IF mode # "packages" /\ discoveryErr
        THEN [validated |-> FALSE, validateErr |-> FALSE, results |-> <<>>,
              failed |-> TRUE]
        ELSE IF mode = "changed" /\ Len(batch) = 0
        THEN [validated |-> FALSE, validateErr |-> FALSE, results |-> <<>>,
              failed |-> FALSE]
        ELSE After(ValidatePackages(NewPackageValidator, batch))

\* ----------------------------------------------------------------------
\* Inputs
\* ----------------------------------------------------------------------

Paths == {"pkgs/a", "pkgs/b"}

\* Every package directory: without a manifest, or with any revision in the
\* working tree and any (or no) revision at HEAD~1.
Packages ==
    {[path |-> p, hasManifest |-> FALSE, content |-> NoRevision, prev |-> NoRevision] :
        p \in Paths}
    \cup
    {[path |-> p, hasManifest |-> TRUE, content |-> c, prev |-> q] :
        p \in Paths, c \in RevisionIds, q \in RevisionIds \cup {NoRevision}}

\* Lines the lint tool prints.
LintLines ==
    {<<"1", "2", ":", "0", "0", " ", "E", "R", "R", " ", "n", "o", " ", "n", "a", "m", "e">>, <<"1", "2", ":", "0", "0", " ", "W", "R", "N", " ", "o", "d", "d", " ", " ">>, <<"l", "i", "n", "t", " ", "f", "a", "i", "l", "e", "d">>, <<"o", "k">>}

\* Every behaviour of the lint tool: absent or present, with either exit
\* status and any output of at most MaxLintLines lines when it runs.
LintRuns ==
    {[available |-> a, exitErr |-> e, output |-> o] :
        a \in BOOLEAN, e \in BOOLEAN, o \in SeqsUpTo(LintLines, MaxLintLines)}

NoCall == [called |-> FALSE]

NotRun == [ran |-> FALSE]

NoArg == [op |-> "none"]

\* ----------------------------------------------------------------------
\* Spec: one validator, called again and again while the package directory
\* and the lint tool change under it
\* ----------------------------------------------------------------------

Init ==
    /\ UseSDK = NewPackageValidator
    /\ dir \in Packages
    /\ zarf \in LintRuns
    /\ last = NoCall
    /\ lintRun = NotRun
    /\ arg = NoArg
    /\ ret = NoArg

\* v.ValidatePackage(dir.path).  last keeps the flag the call met (before)
\* and, when the call follows another call on the same directory and tool,
\* the flag that call met (prior).
Validate ==
    LET out == ValidatePackage(UseSDK, dir, zarf)
    IN  /\ UseSDK' = out.UseSDK
        /\ last' = [called |-> TRUE, before |-> UseSDK, out |-> out,
                    prior |-> IF last.called THEN <<last.before>> ELSE <<>>]
        /\ UNCHANGED <<dir, zarf, lintRun, arg, ret>>

\* The caller turns to the other package directory, or zarf.yaml is edited,
\* removed or created.
ChangeDirectory ==
    /\ \E d \in Packages :
        /\ d # dir
        /\ (d.prev = dir.prev \/ ~d.hasManifest \/ ~dir.hasManifest)
        /\ dir' = d
    /\ last' = NoCall
    /\ UNCHANGED <<UseSDK, zarf, lintRun, arg, ret>>

\* The lint tool is installed or removed, or exits differently.
ChangeTool ==
    /\ \E z \in LintRuns :
        /\ z # zarf
        /\ z.output = zarf.output
        /\ zarf' = z
    /\ last' = NoCall
    /\ UNCHANGED <<UseSDK, dir, lintRun, arg, ret>>

Next == Validate \/ ChangeDirectory \/ ChangeTool

Spec == Init /\ [][Next]_vars

\* ----------------------------------------------------------------------
\* SpecLint: one run of the lint command
\* ----------------------------------------------------------------------

BatchRevisions == {GoodId, DuplicateId, BrokenId, HeavyId}

\* The packages and the lint-tool behaviours a batch is made of.
BatchPackages ==
    {d \in Packages :
        /\ d.path = "pkgs/a"
        /\ d.hasManifest =>
            (d.content \in BatchRevisions /\ d.prev \in {GoodId, d.content})}

BatchTools ==
    {[available |-> FALSE, exitErr |-> FALSE, output |-> <<>>],
     [available |-> TRUE, exitErr |-> FALSE, output |-> <<<<"1", "2", ":", "0", "0", " ", "W", "R", "N", " ", "o", "d", "d", " ", " ">>>>],
     [available |-> TRUE, exitErr |-> TRUE, output |-> <<<<"1", "2", ":", "0", "0", " ", "E", "R", "R", " ", "n", "o", " ", "n", "a", "m", "e">>>>]}

Batches == SeqsUpTo([pkg : BatchPackages, tool : BatchTools], MaxBatch)

SomeDir == CHOOSE d \in Packages : ~d.hasManifest

SomeTool == CHOOSE z \in LintRuns : ~z.available /\ z.output = <<>>

InitLint ==
    /\ UseSDK = NewPackageValidator
    /\ dir = SomeDir
    /\ zarf = SomeTool
    /\ last = NoCall
    /\ \E mode \in {"packages", "all", "changed"}, discoveryErr \in BOOLEAN,
          batch \in Batches :
        /\ discoveryErr => (mode # "packages" /\ batch = <<>>)
        /\ mode = "packages" => batch # <<>>
        /\ lintRun = [ran |-> FALSE, mode |-> mode, discoveryErr |-> discoveryErr,
                      batch |-> batch]
    /\ arg = NoArg
    /\ ret = NoArg

\* The lint command runs to its end.
Lint ==
    /\ ~lintRun.ran
    /\ lintRun' = [lintRun EXCEPT !.ran = TRUE] @@
                    [out |-> lint(lintRun.mode, lintRun.discoveryErr, lintRun.batch)]
    /\ UNCHANGED <<UseSDK, dir, zarf, last, arg, ret>>

NextLint == Lint

SpecLint == InitLint /\ [][NextLint]_vars

\* ----------------------------------------------------------------------
\* SpecPipeline: validateWithSDK, pass by pass, with the lint tool present
\* ----------------------------------------------------------------------

PipelinePackages == {d \in Packages : d.path = "pkgs/a" /\ d.hasManifest}

InitPipeline ==
    /\ UseSDK = NewPackageValidator
    /\ dir = SomeDir
    /\ zarf = SomeTool
    /\ last = NoCall
    /\ lintRun = NotRun
    /\ \E d \in PipelinePackages, z \in LintRuns :
        /\ z.available
        /\ arg = [op |-> "validateWithSDK", pkg |-> d, tool |-> z]
    /\ ret = NoArg

\* `zarf dev lint` has run and its output has been read.
RunLint ==
    /\ ret.op = "none"
    /\ ret' = [op |-> "zarf dev lint", pass |-> 0, err |-> FALSE,
               before |-> NewResult(arg.pkg.path, TRUE),
               result |-> LintResult(arg.pkg, arg.tool)]
    /\ UNCHANGED <<UseSDK, dir, zarf, last, lintRun, arg>>

\* The next pass runs on the result the passes before it left.
RunNextPass ==
    /\ ret.op # "none"
    /\ ~ret.err
    /\ ret.pass < Len(PassNames)
    /\ LET out == RunPass(ret.pass + 1, arg.pkg, ret.result)
       IN  ret' = [op |-> PassNames[ret.pass + 1], pass |-> ret.pass + 1,
                   err |-> out.err, before |-> ret.result, result |-> out.result]
    /\ UNCHANGED <<UseSDK, dir, zarf, last, lintRun, arg>>

NextPipeline == RunLint \/ RunNextPass

SpecPipeline == InitPipeline /\ [][NextPipeline]_vars

\* ----------------------------------------------------------------------
\* SpecBasic: validateBasic on any manifest
\* ----------------------------------------------------------------------

Kinds == {"", "Other", "zarfpackageconfig", ZarfPackageConfig}

Names == {<<>>, app, Rep("a", MaxNameLen), Rep("a", MaxNameLen + 1)}

\* What util.ReadZarfYaml can return: an error, or a manifest.
Reads ==
    {[err |-> TRUE]}
    \cup
    {[err |-> FALSE, zarfYaml |-> ZarfYaml(k, n, d, v, <<>>)] :
        k \in Kinds, n \in Names, d \in {"", "d"}, v \in {"", "1.0.0"}}

InitBasic ==
    /\ UseSDK = NewPackageValidator
    /\ dir = SomeDir
    /\ zarf = SomeTool
    /\ last = NoCall
    /\ lintRun = NotRun
    /\ \E p \in Paths, r \in Reads : arg = [op |-> "validateBasic", path |-> p, read |-> r]
    /\ ret = NoArg

Basic ==
    /\ ret.op = "none"
    /\ ret' = [op |-> "validateBasic"] @@ validateBasicOf(arg.path, arg.read)
    /\ UNCHANGED <<UseSDK, dir, zarf, last, lintRun, arg>>

NextBasic == Basic

SpecBasic == InitBasic /\ [][NextBasic]_vars

\* ----------------------------------------------------------------------
\* Properties
\* ----------------------------------------------------------------------

\* The elements of a sequence.
Range(s) == {s[i] : i \in DOMAIN s}

\* The manifest of a package directory exists and cannot be parsed.
Unparsable(d) == d.hasManifest /\ ~Revisions[d.content].parses

\* The external commands among the steps of a call.
ToolCommands == {"zarf version", "zarf dev lint"}

AllPasses == <<"zarf version", "zarf dev lint">> \o PassNames

\* C1: every result ValidatePackage returns has Valid true if and only if
\* its Errors are empty.
C1_ValidIffNoErrors ==
    last.called =>
        (last.out.result.Valid <=> last.out.result.Errors = <<>>)

\* C2: a batch in which the manifest of some package cannot be parsed makes
\* ValidatePackages return an error and no results.
C2_BatchFailsOnUnparsable ==
    (/\ lintRun.ran
     /\ lintRun.out.validated
     /\ \E i \in DOMAIN lintRun.batch : Unparsable(lintRun.batch[i].pkg))
    => (lintRun.out.validateErr /\ lintRun.out.results = <<>>)

C4_UnavailableWarned ==
    (last.called /\ last.before /\ dir.hasManifest /\ ~zarf.available) =>
        /\ MsgFallback \in Range(last.out.result.Warnings)
        /\ last.out.result.Errors = validateBasic(dir).result.Errors
        /\ last.out.result.Valid = validateBasic(dir).result.Valid

\* C5: once UseSDK is false it stays false, and a call made with UseSDK false
\* runs no external command: on a directory with a manifest it is the
\* fallback validation and nothing else.
C5_StickyFallback ==
    [][~UseSDK =>
        /\ ~UseSDK'
        /\ last'.called =>
            /\ ~last'.before
            /\ Range(last'.out.trace) \cap ToolCommands = {}
            /\ dir.hasManifest =>
                /\ last'.out.trace = <<"validateBasic">>
                /\ last'.out.result = validateBasic(dir).result]_vars

C5_Witness ==
    /\ last.called
    /\ ~last.before
    /\ ~UseSDK
    /\ dir.hasManifest
    /\ zarf.available

\* C6: the lint command fails exactly when some result of the batch it
\* validated is invalid; a batch of valid results passes whatever the number
\* of its warnings.
C6_FailsIffInvalid ==
    (lintRun.ran /\ lintRun.out.validated) =>
        /\ ~lintRun.out.validateErr
        /\ Len(lintRun.out.results) = Len(lintRun.batch)
        /\ lintRun.out.failed <=>
            Cardinality({i \in DOMAIN lintRun.out.results :
                            lintRun.out.results[i].Valid = FALSE}) > 0

C6_Witness ==
    /\ lintRun.ran
    /\ lintRun.out.validated
    /\ ~lintRun.out.failed
    /\ Len(lintRun.out.results) = MaxBatch
    /\ \A i \in DOMAIN lintRun.out.results :
        Len(lintRun.out.results[i].Warnings) >= 2

\* The errors about the kind among the errors of a result.
KindErrors(zarfYaml, result) ==
    {i \in DOMAIN result.Errors :
        result.Errors[i] \in {MsgMissingKind, MsgInvalidKind(zarfYaml.Kind)}}

\* validateBasic has run on a manifest whose kind is not the required one.
WrongKindCase ==
    /\ ret.op = "validateBasic"
    /\ ~arg.read.err
    /\ arg.read.zarfYaml.Kind # ZarfPackageConfig

\* C7, as claimed: for a manifest whose kind is not 'ZarfPackageConfig',
\* whatever its other fields, validateBasic records exactly one error and
\* returns an invalid result.
C7_ExactlyOneError ==
    WrongKindCase =>
        /\ ~ret.result.Valid
        /\ Len(ret.result.Errors) = 1

\* C7, amended: for a manifest whose kind is not 'ZarfPackageConfig',
\* validateBasic returns an invalid result with exactly one error about the
\* kind; a missing name or a name of more than 63 characters adds one more
\* error, and there is no other.
C7_OneKindError ==
    WrongKindCase =>
        LET name == arg.read.zarfYaml.Metadata.Name
        IN  /\ ~ret.err
            /\ ~ret.result.Valid
            /\ Cardinality(KindErrors(arg.read.zarfYaml, ret.result)) = 1
            /\ Len(ret.result.Errors) =
                    IF name = <<>> \/ Len(name) > MaxNameLen THEN 2 ELSE 1

C7_Witness ==
    /\ WrongKindCase
    /\ arg.read.zarfYaml.Kind = ""
    /\ arg.read.zarfYaml.Metadata.Name = <<>>
    /\ Len(ret.result.Errors) = 2

\* The version-increment pass has run on a manifest that could be read.
VersionPassRan ==
    /\ ret.op = "validateVersionIncrement"
    /\ Revisions[arg.pkg.content].parses

\* The previous revision was retrieved and parsed.
PreviousKnown ==
    /\ arg.pkg.prev # NoRevision
    /\ Revisions[arg.pkg.prev].parses

CurrentVersion == Revisions[arg.pkg.content].yaml.Metadata.Version

PreviousVersion == Revisions[arg.pkg.prev].yaml.Metadata.Version

\* C8: with the previous revision at hand and the same version in both, the
\* pass records exactly one error naming the version and makes the result
\* invalid if the content differs, and records no error and leaves Valid
\* alone if the content is the same.
C8_SameVersion ==
    (VersionPassRan /\ PreviousKnown /\ CurrentVersion = PreviousVersion) =>
        /\ ~ret.err
        /\ IF Revisions[arg.pkg.content].text # Revisions[arg.pkg.prev].text
           THEN /\ ret.result.Errors =
                        Append(ret.before.Errors, MsgNotIncremented(CurrentVersion))
                /\ ~ret.result.Valid
           ELSE /\ ret.result.Errors = ret.before.Errors
                /\ ret.result.Valid = ret.before.Valid

C8_Witness ==
    /\ VersionPassRan
    /\ PreviousKnown
    /\ CurrentVersion = PreviousVersion
    /\ arg.pkg.content # arg.pkg.prev
    /\ ret.before.Valid
    /\ ~ret.result.Valid

\* C9: when the previous revision cannot be retrieved or cannot be parsed,
\* the pass records exactly one warning, leaves Errors and Valid alone and
\* returns no error, and validateWithSDK goes on through every later pass.
C9_NoPrevious ==
    (VersionPassRan /\ ~PreviousKnown) =>
        /\ ~ret.err
        /\ \E w \in {MsgNoPrevious, MsgBadPrevious} :
                ret.result.Warnings = Append(ret.before.Warnings, w)
        /\ ret.result.Errors = ret.before.Errors
        /\ ret.result.Valid = ret.before.Valid
        /\ ~validateWithSDK(arg.pkg, arg.tool).err
        /\ validateWithSDK(arg.pkg, arg.tool).trace = AllPasses

C9_Witness ==
    /\ VersionPassRan
    /\ arg.pkg.prev # NoRevision
    /\ ~Revisions[arg.pkg.prev].parses
    /\ ret.before.Errors # <<>>

\* C10: a manifest without metadata.version gets no error from the
\* version-increment pass, whatever the previous revision and the content.
C10_NoVersionNoError ==
    (VersionPassRan /\ CurrentVersion = "") =>
        ret.result.Errors = ret.before.Errors

\* The messages of the version-increment pass among the errors and the
\* warnings of a result.
VersionFormats ==
    {MsgNoPrevious[1], MsgBadPrevious[1], MsgNotIncremented("")[1]}

VersionMessages(result) ==
    {m \in Range(result.Errors) \cup Range(result.Warnings) :
        Len(m) > 0 /\ m[1] \in VersionFormats}

\* C11: when the lint command runs on explicitly selected packages or on all
\* packages, no result carries a message of the version-increment pass (the
\* check is not performed on any of them).
C11_NoVersionCheck ==
    (lintRun.ran /\ lintRun.mode \in {"packages", "all"} /\ lintRun.out.validated) =>
        \A i \in DOMAIN lintRun.out.results :
            VersionMessages(lintRun.out.results[i]) = {}

\* ----------------------------------------------------------------------
\* SpecPinning: validateImagePinning on manifests that declare any images
\* ----------------------------------------------------------------------

MaxImages == 2

\* Image references as a manifest declares them.
ImageRefs ==
    {<<"n", "g", "i", "n", "x", ":", "1", ".", "2", "1">>, <<"n", "g", "i", "n", "x", "@", "s", "h", "a", "2", "5", "6", ":", "a", "b", "c", "d">>, <<"{", "{", " ", ".", "I", "m", "a", "g", "e", " ", "}", "}">>, <<"$", "{", "R", "E", "G", "}", "/", "n", "g", "i", "n", "x", ":", "1", ".", "2", "1">>,
     <<"n", "g", "i", "n", "x">>, <<"a", "c", "m", "e", "/", "i", "m", "a", "g", "e", "s", ":", "1", ".", "0">>, <<"b", "a", "s", "e", "-", "i", "m", "a", "g", "e", ":", "1", ".", "0">>}

\* The lines of a zarf.yaml whose one component lists the references of
\* images under `images:` and has an `image:` field for each reference of
\* inline; quoted references are written between double quotes, and the
\* lines of follow come after the list of images.
Written(ref, quoted) == IF quoted THEN <<"\"">> \o ref \o <<"\"">> ELSE ref

ManifestLines(images, follow, inline, quoted) ==
    <<<<"k", "i", "n", "d", ":", " ", "Z", "a", "r", "f", "P", "a", "c", "k", "a", "g", "e", "C", "o", "n", "f", "i", "g">>, <<"m", "e", "t", "a", "d", "a", "t", "a", ":">>, <<" ", " ", "n", "a", "m", "e", ":", " ", "a", "p", "p">>, <<"c", "o", "m", "p", "o", "n", "e", "n", "t", "s", ":">>,
      <<"-", " ", "n", "a", "m", "e", ":", " ", "w", "e", "b">>>>
    \o (IF images = <<>> THEN <<>> ELSE <<<<" ", " ", "i", "m", "a", "g", "e", "s", ":">>>>)
    \o [i \in DOMAIN images |-> <<" ", " ", "-", " ">> \o Written(images[i], quoted)]
    \o follow
    \o [i \in DOMAIN inline |-> <<" ", " ", "i", "m", "a", "g", "e", ":", " ">> \o Written(inline[i], quoted)]

\* What may follow the list of images: nothing, the repositories of the
\* same component, or the next component.
FollowingLines ==
    {<<>>,
     <<<<" ", " ", "r", "e", "p", "o", "s", ":">>, <<" ", " ", "-", " ", "h", "t", "t", "p", "s", ":", "/", "/", "g", "i", "t", "h", "u", "b", ".", "c", "o", "m", "/", "a", "c", "m", "e", "/", "a", "p", "p", ".", "g", "i", "t">>>>,
     <<<<"-", " ", "n", "a", "m", "e", ":", " ", "d", "b">>, <<" ", " ", "r", "e", "q", "u", "i", "r", "e", "d", ":", " ", "t", "r", "u", "e">>>>}

InitPinning ==
    /\ UseSDK = NewPackageValidator
    /\ dir = SomeDir
    /\ zarf = SomeTool
    /\ last = NoCall
    /\ lintRun = NotRun
    /\ \E images \in SeqsUpTo(ImageRefs, MaxImages), inline \in SeqsUpTo(ImageRefs, 1),
          follow \in FollowingLines, quoted \in BOOLEAN, readErr \in BOOLEAN :
        arg = [op |-> "validateImagePinning", images |-> images, follow |-> follow,
               inline |-> inline, quoted |-> quoted, readErr |-> readErr]
    /\ ret = NoArg

\* v.validateImagePinning(packagePath, result) on a result without messages
Pin ==
    /\ arg.op = "validateImagePinning"
    /\ ret.op = "none"
    /\ ret' = [op |-> "validateImagePinning"] @@
                validateImagePinningOf(
                    IF arg.readErr
                    THEN [err |-> TRUE]
                    ELSE [err |-> FALSE,
                          text |-> ManifestLines(arg.images, arg.follow, arg.inline, arg.quoted)],
                    NewResult("pkgs/a", TRUE))
    /\ UNCHANGED <<UseSDK, dir, zarf, last, lintRun, arg>>

NextPinning == Pin

SpecPinning == InitPinning /\ [][NextPinning]_vars

\* The pass has run on a manifest it could read.
PinningRan == ret.op = "validateImagePinning" /\ ~ret.err

\* The references the manifest declares.
DeclaredRefs == Range(arg.images) \cup Range(arg.inline)

\* A reference with a tag separator, without a digest, that is no template
\* placeholder.
TaggedOnly(ref) ==
    /\ ":" \in Range(ref)
    /\ ~Contains(ref, <<"@", "s", "h", "a", "2", "5", "6", ":">>)
    /\ ~HasPrefix(ref, <<"{", "{">>) /\ ~HasPrefix(ref, <<"$", "{">>)

\* C12: the pass records a warning naming every declared reference that has
\* a tag and no digest and is no template placeholder, and none naming a
\* reference pinned by digest or a template placeholder.
C12_UnpinnedWarned ==
    PinningRan =>
        \A ref \in DeclaredRefs :
            TaggedOnly(ref) <=> MsgNotPinned(ref) \in Range(ret.result.Warnings)

\* ----------------------------------------------------------------------
\* SpecDeps: validateComponentDependencies on any graph of uniquely named
\* components
\* ----------------------------------------------------------------------

MaxComponents == 4

MaxEdges == 4

\* The name of the i-th component: c, cc, ccc, ...
ComponentName(i) == Rep("c", i)

\* The increasing sequences of at most k numbers of 1..m.
RECURSIVE Increasing(_, _)
Increasing(m, k) ==
    IF k = 0
    THEN {<<>>}
    ELSE LET shorter == Increasing(m, k - 1)
         IN  shorter \cup
             UNION {{Append(s, j) : j \in (IF s = <<>> THEN 1 ELSE s[Len(s)] + 1)..m} :
                    s \in shorter}

\* The e-th of the possible edges: from a component to a name.
Edge(e) == <<((e - 1) \div MaxComponents) + 1, ((e - 1) % MaxComponents) + 1>>

\* The elements of a set of numbers in increasing order.
RECURSIVE Ascending(_)
Ascending(S) ==
    IF S = {}
    THEN <<>>
    ELSE LET least == CHOOSE x \in S : \A y \in S : x <= y
         IN  <<least>> \o Ascending(S \ {least})

Reverse(s) == [i \in DOMAIN s |-> s[Len(s) + 1 - i]]

\* The depsWith of component i of a graph: the names of its targets, in
\* increasing or in decreasing order, listed once or twice over; a target
\* beyond graph.n is a name that no component declares.
DepsOf(graph, i) ==
    LET targets == Ascending({e[2] : e \in {d \in graph.edges : d[1] = i}})
        names == [k \in DOMAIN targets |-> ComponentName(targets[k])]
        listed == IF graph.reversed THEN Reverse(names) ELSE names
    IN  IF graph.doubled THEN listed \o listed ELSE listed

ComponentsOf(graph) ==
    [i \in 1..graph.n |-> ZarfComponent(ComponentName(i), DepsOf(graph, i))]

\* The graphs of n components and at most MaxEdges edges.
Graphs(n) ==
    {[n |-> n, edges |-> {Edge(picked[i]) : i \in DOMAIN picked}, reversed |-> reversed,
      doubled |-> doubled] :
        picked \in Increasing(n * MaxComponents, MaxEdges), reversed \in BOOLEAN,
        doubled \in BOOLEAN}

InitDeps ==
    /\ UseSDK = NewPackageValidator
    /\ dir = SomeDir
    /\ zarf = SomeTool
    /\ last = NoCall
    /\ lintRun = NotRun
    /\ \E n \in 0..MaxComponents : \E graph \in Graphs(n) :
        arg = [op |-> "validateComponentDependencies", graph |-> graph]
    /\ ret = NoArg

\* v.validateComponentDependencies(packagePath, result) on a result without
\* messages
Dependencies ==
    /\ arg.op = "validateComponentDependencies"
    /\ ret.op = "none"
    /\ ret' = [op |-> "validateComponentDependencies"] @@
                validateComponentDependenciesOf(
                    [err |-> FALSE,
                     zarfYaml |-> ZarfYaml(ZarfPackageConfig, app, "d", "1.0.0",
                                           ComponentsOf(arg.graph))],
                    NewResult("pkgs/a", TRUE))
    /\ UNCHANGED <<UseSDK, dir, zarf, last, lintRun, arg>>

NextDeps == Dependencies

SpecDeps == InitDeps /\ [][NextDeps]_vars

DepsRan == ret.op = "validateComponentDependencies" /\ ~ret.err

\* Every target of the graph is a declared component.
Resolved(graph) == \A e \in graph.edges : e[2] <= graph.n

\* The pairs joined by a path of one edge or more.
RECURSIVE Closure(_)
Closure(R) ==
    LET joined == R \cup {<<p[1][1], p[2][2]>> : p \in {q \in R \X R : q[1][2] = q[2][1]}}
    IN  IF joined = R THEN R ELSE Closure(joined)

Acyclic(graph) == \A e \in Closure(graph.edges) : e[1] # e[2]

Diamond == {<<1, 2>>, <<1, 3>>, <<2, 4>>, <<3, 4>>}

\* C13: on uniquely named components the dependency pass records no error
\* exactly when every depsWith target is declared and the depsWith graph has
\* no cycle, a self-dependency being a cycle.
C13_ZeroErrorsIff ==
    DepsRan =>
        (ret.result.Errors = <<>> <=> (Resolved(arg.graph) /\ Acyclic(arg.graph)))

\* The diamond has been validated and has no error.
C13_Witness ==
    /\ DepsRan
    /\ arg.graph.n = 4 /\ arg.graph.edges = Diamond
    /\ ret.result.Errors = <<>>

\* The manifest of a package directory declares a component that lists
\* itself in its depsWith.
SelfDependent(d) ==
    /\ d.hasManifest
    /\ Revisions[d.content].parses
    /\ \E i \in DOMAIN Revisions[d.content].yaml.Components :
        LET component == Revisions[d.content].yaml.Components[i]
        IN  component.Name \in Range(component.DepsWith)

\* C14: the result ValidatePackage returns for a package with a component
\* that depends on itself carries a self-dependency error and is invalid,
\* and HasValidationErrors is true of a batch with that result.
C14_SelfDependencyFails ==
    (last.called /\ SelfDependent(dir)) =>
        /\ \E i \in DOMAIN last.out.result.Errors :
            last.out.result.Errors[i][1] = MsgSelfDep(<<>>)[1]
        /\ ~last.out.result.Valid
        /\ HasValidationErrors(<<last.out.result>>)

\* ----------------------------------------------------------------------
\* SpecComponents: validateComponents on any list of components
\* ----------------------------------------------------------------------

MaxListed == 3

\* The components a manifest may list: named or not, conventionally or not,
\* redundant or not, empty or not.
ListedComponents ==
    {[ZarfComponent(name, <<>>) EXCEPT
            !.Required = flagged, !.Default = flagged,
            !.Images = IF filled THEN <<PinnedImage>> ELSE <<>>] :
        name \in {web, db, <<"W", "e", "b", " ", "A", "p", "p">>, <<>>}, flagged \in BOOLEAN, filled \in BOOLEAN}

InitComponents ==
    /\ UseSDK = NewPackageValidator
    /\ dir = SomeDir
    /\ zarf = SomeTool
    /\ last = NoCall
    /\ lintRun = NotRun
    /\ \E components \in SeqsUpTo(ListedComponents, MaxListed) :
        arg = [op |-> "validateComponents", components |-> components]
    /\ ret = NoArg

\* v.validateComponents(packagePath, result) on a result without messages
Components ==
    /\ arg.op = "validateComponents"
    /\ ret.op = "none"
    /\ ret' = [op |-> "validateComponents"] @@
                validateComponentsOf(
                    [err |-> FALSE,
                     zarfYaml |-> ZarfYaml(ZarfPackageConfig, app, "d", "1.0.0",
                                           arg.components)],
                    NewResult("pkgs/a", TRUE))
    /\ UNCHANGED <<UseSDK, dir, zarf, last, lintRun, arg>>

NextComponents == Components

SpecComponents == InitComponents /\ [][NextComponents]_vars

ComponentsRan == ret.op = "validateComponents" /\ ~ret.err

\* The positions of the list that hold a component of that name.
Occurrences(name) == {i \in DOMAIN arg.components : arg.components[i].Name = name}

ListedNames == {arg.components[i].Name : i \in DOMAIN arg.components}

\* The positions of Errors that hold the duplicate error of that name.
DuplicateErrors(name) ==
    {i \in DOMAIN ret.result.Errors : ret.result.Errors[i] = MsgDuplicate(name)}

\* C15: validateComponents records one duplicate-name error for every
\* occurrence of a name after the first, and no other error, so that the
\* errors number the components less the distinct names.
C15_OneErrorPerRepeat ==
    ComponentsRan =>
        /\ \A name \in ListedNames :
            Cardinality(DuplicateErrors(name)) = Cardinality(Occurrences(name)) - 1
        /\ Len(ret.result.Errors) = Len(arg.components) - Cardinality(ListedNames)

\* A name listed three times has been validated.
C15_Witness ==
    /\ ComponentsRan
    /\ \E name \in ListedNames : Cardinality(Occurrences(name)) = 3
    /\ Len(ret.result.Errors) = 2

\* C16: a call of ValidatePackage that follows another on the same
\* validator, with the package directory and the lint tool unchanged,
\* returns a result equal to the one before it, also when the call before it
\* is the one that switched the validator to the fallback.
C16_Idempotent ==
    [][(last.called /\ last'.called /\ dir' = dir /\ zarf' = zarf) =>
        /\ last'.out.result.Valid = last.out.result.Valid
        /\ last'.out.result.Errors = last.out.result.Errors
        /\ last'.out.result.Warnings = last.out.result.Warnings]_vars

\* A second call has returned, the first having switched the validator to
\* the fallback on a directory with a manifest.
C16_Witness ==
    /\ last.called
    /\ last.prior = <<TRUE>>
    /\ ~last.before
    /\ dir.hasManifest

\* ----------------------------------------------------------------------
\* The file system: FindZarfPackages, findPackagesInDirectory, IsZarfPackage
\* on directories
\* ----------------------------------------------------------------------

\* A path is the sequence of its elements.  A file system gives every path
\* of FsPaths what is there: "none", a "file", a "dir", or a directory that
\* cannot be read or searched ("locked"); every other path has nothing.
zarfYamlName == <<"z", "a", "r", "f", ".", "y", "a", "m", "l">>

FsPaths ==
    {<<<<"p", "k">>>>, <<<<"p", "k">>, <<"a">>>>, <<<<"p", "k">>, zarfYamlName>>, <<<<"p", "k">>, <<"a">>, zarfYamlName>>,
     <<<<"p", "k">>, zarfYamlName, zarfYamlName>>, <<<<"p", "k", "x">>>>, <<<<"p", "k", "x">>, zarfYamlName>>}

\* The names of FsPaths in the lexical order filepath.Walk visits them.
NameOrder == <<<<"a">>, <<"p", "k">>, <<"p", "k", "x">>, zarfYamlName>>

\* filepath.Dir and filepath.Base of a path of one element or more
DirOf(path) == SubSeq(path, 1, Len(path) - 1)
BaseOf(path) == path[Len(path)]

KindAt(fs, path) == IF path \in DOMAIN fs THEN fs[path] ELSE "none"

\* The file systems: something is at a path only if its parent is a
\* directory that can be read.
FileSystems ==
    {fs \in [FsPaths -> {"none", "file", "dir", "locked"}] :
        \A path \in FsPaths :
            (Len(path) > 1 /\ fs[path] # "none") => fs[DirOf(path)] = "dir"}

\* os.Stat / os.Lstat: what is at the path, or why it cannot be told:
\* "notexist" (ENOENT), "notdir" (ENOTDIR, an element of the path is a file)
\* or "denied" (EACCES, an element of the path cannot be searched).
RECURSIVE StatFrom(_, _, _)
StatFrom(fs, path, i) ==
    LET sofar == SubSeq(path, 1, i)
        kind == KindAt(fs, sofar)
    IN  IF kind = "none" THEN "notexist"
        ELSE IF i = Len(path) THEN kind
        ELSE IF kind = "file" THEN "notdir"
        ELSE IF kind = "locked" THEN "denied"
        ELSE StatFrom(fs, path, i + 1)

Stat(fs, path) == StatFrom(fs, path, 1)

\* IsZarfPackage(dir): os.Stat of dir/zarf.yaml does not say "not exist"
IsZarfPackageIn(fs, d) == Stat(fs, Append(d, zarfYamlName)) # "notexist"

\* A visit that takes every file for a manifest.
Visit_EveryFile(path, packages) == Append(packages, DirOf(path))

\* The function findPackagesInDirectory hands to filepath.Walk, on an entry
\* that is no directory.
Visit(path, packages) ==
    IF BaseOf(path) = zarfYamlName THEN Append(packages, DirOf(path)) ELSE packages

\* filepath.Walk below path, which Lstat has found; the value is
\* [err, packages].  Reading a locked directory fails, the function is
\* handed the error and returns it, and the walk ends.
RECURSIVE walk(_, _, _)
RECURSIVE WalkNames(_, _, _, _)

WalkNames(fs, path, i, packages) ==
    LET After(r) == IF r.err THEN r ELSE WalkNames(fs, path, i + 1, r.packages)
    IN  IF i > Len(NameOrder)
        THEN [err |-> FALSE, packages |-> packages]
        ELSE IF KindAt(fs, Append(path, NameOrder[i])) = "none"
        THEN WalkNames(fs, path, i + 1, packages)
        ELSE After(walk(fs, Append(path, NameOrder[i]), packages))

walk(fs, path, packages) ==
    CASE KindAt(fs, path) = "file" -> [err |-> FALSE, packages |-> Visit(path, packages)]
      [] KindAt(fs, path) = "locked" -> [err |-> TRUE, packages |-> packages]
      [] KindAt(fs, path) = "dir" -> WalkNames(fs, path, 1, packages)

findPackagesInDirectory(fs, d) ==
    LET After(r) == IF r.err THEN [err |-> TRUE, packages |-> <<>>] ELSE r
    IN  IF Stat(fs, d) = "notexist"
        THEN [err |-> FALSE, packages |-> <<>>]
        ELSE IF Stat(fs, d) \in {"notdir", "denied"}
        THEN [err |-> TRUE, packages |-> <<>>]
        ELSE After(walk(fs, d, <<>>))

\* FindZarfPackages(dirs): the value is [err, packages]; with err the
\* function returns nil for the list, here the empty sequence.
RECURSIVE FindZarfPackagesFrom(_, _, _, _)
FindZarfPackagesFrom(fs, dirs, i, packageDirs) ==
    LET After(r) ==
            IF r.err
            THEN [err |-> TRUE, packages |-> <<>>]
            ELSE FindZarfPackagesFrom(fs, dirs, i + 1, packageDirs \o r.packages)
    IN  IF i > Len(dirs)
        THEN [err |-> FALSE, packages |-> packageDirs]
        ELSE After(findPackagesInDirectory(fs, dirs[i]))

FindZarfPackages(fs, dirs) == FindZarfPackagesFrom(fs, dirs, 1, <<>>)

\* ----------------------------------------------------------------------
\* SpecLocate: FindZarfPackages on any file system and any roots
\* ----------------------------------------------------------------------

MaxRoots == 2

Roots == {<<<<"p", "k">>>>, <<<<"p", "k">>, <<"a">>>>, <<<<"p", "k">>, zarfYamlName>>, <<<<"g", "o", "n", "e">>>>}

InitLocate ==
    /\ UseSDK = NewPackageValidator
    /\ dir = SomeDir
    /\ zarf = SomeTool
    /\ last = NoCall
    /\ lintRun = NotRun
    /\ \E fs \in FileSystems, dirs \in SeqsUpTo(Roots, MaxRoots) :
        arg = [op |-> "FindZarfPackages", fs |-> fs, dirs |-> dirs]
    /\ ret = NoArg

\* zarf.FindZarfPackages(dirs)
Locate ==
    /\ arg.op = "FindZarfPackages"
    /\ ret.op = "none"
    /\ ret' = [op |-> "FindZarfPackages"] @@ FindZarfPackages(arg.fs, arg.dirs)
    /\ UNCHANGED <<UseSDK, dir, zarf, last, lintRun, arg>>

NextLocate == Locate

SpecLocate == InitLocate /\ [][NextLocate]_vars

LocateRan == ret.op = "FindZarfPackages"

\* The number of times x occurs in a sequence.
CountIn(s, x) == Cardinality({i \in DOMAIN s : s[i] = x})

\* path is root or lies below it.
AtOrBelow(path, root) ==
    Len(root) <= Len(path) /\ SubSeq(path, 1, Len(root)) = root

\* The positions of the roots that exist.
ExistingRoots == {i \in DOMAIN arg.dirs : Stat(arg.fs, arg.dirs[i]) # "notexist"}

FsDirectories == {path \in FsPaths : arg.fs[path] \in {"dir", "locked"}}

\* C17: FindZarfPackages returns the directories at or below an existing
\* root for which IsZarfPackage holds, each once for every such root, and
\* nothing else; roots that do not exist give no package and no error.
C17_ExactlyPackages ==
    LocateRan =>
        /\ ExistingRoots = {} => (~ret.err /\ ret.packages = <<>>)
        /\ ~ret.err =>
            \A d \in FsPaths \cup Range(ret.packages) :
                CountIn(ret.packages, d) =
                    IF d \in FsDirectories /\ IsZarfPackageIn(arg.fs, d)
                    THEN Cardinality({i \in ExistingRoots : AtOrBelow(d, arg.dirs[i])})
                    ELSE 0

\* The walk of a root fails: the root cannot be reached, or it or a
\* directory below it cannot be read.
WalkFails(root) ==
    \/ Stat(arg.fs, root) \in {"notdir", "denied"}
    \/ \E path \in FsPaths : arg.fs[path] = "locked" /\ AtOrBelow(path, root)

\* The positions of the existing roots whose walk meets a file zarf.yaml
\* directly inside d.
RootsMeeting(d) ==
    {i \in ExistingRoots :
        /\ KindAt(arg.fs, Append(d, zarfYamlName)) = "file"
        /\ AtOrBelow(Append(d, zarfYamlName), arg.dirs[i])}

\* C17, as the code has it: when no walk fails, the directories returned are
\* those that hold directly a file (not a directory) named zarf.yaml met by
\* the walk of an existing root, each once for every such root; a root that
\* does not exist gives nothing and no error; when a walk fails the call
\* returns an error and no list.
C17_FoundByWalk ==
    LocateRan =>
        IF \E i \in DOMAIN arg.dirs : WalkFails(arg.dirs[i])
        THEN ret.err /\ ret.packages = <<>>
        ELSE /\ ~ret.err
             /\ \A d \in FsPaths \cup Range(ret.packages) :
                    CountIn(ret.packages, d) = Cardinality(RootsMeeting(d))

\* Two packages have been found below one root while another root does not
\* exist.
C17_Witness ==
    /\ LocateRan
    /\ ~ret.err
    /\ Len(ret.packages) >= 2
    /\ \E i \in DOMAIN arg.dirs : i \notin ExistingRoots

\* ----------------------------------------------------------------------
\* SpecChanged: FindChangedPackages on any file system, roots and answers
\* of Git
\* ----------------------------------------------------------------------

\* A path as the string the code holds: the names joined by "/", and "."
\* for the directory the command runs in.
RECURSIVE JoinPath(_)
JoinPath(path) ==
    IF path = <<>> THEN <<".">>
    ELSE IF Len(path) = 1 THEN path[1]
    ELSE JoinPath(DirOf(path)) \o <<"/">> \o BaseOf(path)

ChangedFsPaths ==
    {<<zarfYamlName>>, <<<<"p", "k">>>>, <<<<"p", "k">>, zarfYamlName>>, <<<<"p", "k">>, <<"a">>>>, <<<<"p", "k">>, <<"a">>, zarfYamlName>>,
     <<<<"p", "k", "x">>>>, <<<<"p", "k", "x">>, zarfYamlName>>}

ChangedFileSystems ==
    {fs \in [ChangedFsPaths -> {"none", "file", "dir"}] :
        \A path \in ChangedFsPaths :
            (Len(path) > 1 /\ fs[path] # "none") => fs[DirOf(path)] = "dir"}

\* The roots handed over: "pk", "pk/a", "pkx/a" and ".".
ChangedRoots == {<<<<"p", "k">>>>, <<<<"p", "k">>, <<"a">>>>, <<<<"p", "k", "x">>, <<"a">>>>, <<>>}

\* The files Git may list, in the order it lists them; a file listed may
\* have been deleted, with its directory.
ChangedFiles == <<<<<<"f">>>>, <<<<"p", "k">>, <<"a">>, <<"f">>>>, <<<<"p", "k">>, <<"f">>>>, <<<<"p", "k", "x">>, <<"a">>, <<"f">>>>>>

\* git merge-base: a commit, or a failure.
MergeBase(git) == git.mergeBase

\* git diff --name-only of the merge base, restricted to dirs: the changed
\* files at or below one of dirs, or a failure.
ListChangedFilesInDirs(git, dirs) ==
    IF git.diffFails
    THEN [err |-> TRUE, files |-> <<>>]
    ELSE [err |-> FALSE,
          files |-> SelectSeq(git.changed, LAMBDA file : \E i \in DOMAIN dirs : AtOrBelow(file, dirs[i]))]

\* The answers of Git: the merge base is found or not, the diff fails or
\* not, and the files that differ from the merge base.
GitAnswers ==
    {[mergeBase |-> [err |-> e], diffFails |-> f, changed |-> SelectSeq(ChangedFiles, LAMBDA file : file \in S)] :
        e \in BOOLEAN, f \in BOOLEAN, S \in SUBSET Range(ChangedFiles)}

\* The loop of findPackageContainingFile from currentDir upward; the paths
\* are relative, so the loop ends at ".".  The value is [err, dir].
RECURSIVE findPackageFrom(_, _, _)
findPackageFrom(fs, currentDir, dirs) ==
    IF currentDir = <<>>
    THEN [err |-> TRUE, dir |-> <<>>]
    ELSE IF /\ IsZarfPackageIn(fs, currentDir)
            /\ \E i \in DOMAIN dirs : HasPrefix(JoinPath(currentDir), JoinPath(dirs[i]))
    THEN [err |-> FALSE, dir |-> currentDir]
    ELSE findPackageFrom(fs, DirOf(currentDir), dirs)

findPackageContainingFile(fs, file, dirs) == findPackageFrom(fs, DirOf(file), dirs)

\* The loop of FindChangedPackages over the changed files: the keys of the
\* map changedPackages.
RECURSIVE ChangedLoop(_, _, _, _, _)
ChangedLoop(fs, changedFiles, dirs, i, changedPackages) ==
    LET After(r) ==
            ChangedLoop(fs, changedFiles, dirs, i + 1,
                        IF r.err THEN changedPackages ELSE changedPackages \cup {r.dir})
    IN  IF i > Len(changedFiles)
        THEN changedPackages
        ELSE After(findPackageContainingFile(fs, changedFiles[i], dirs))

\* FindChangedPackages that goes on without a merge base.
FindChangedPackages_WithoutMergeBase(fs, git, dirs) ==
    LET After(listed) ==
            IF listed.err
            THEN [err |-> TRUE, packages |-> {}, calls |-> <<"MergeBase", "ListChangedFilesInDirs">>]
            ELSE [err |-> FALSE, packages |-> ChangedLoop(fs, listed.files, dirs, 1, {}),
                  calls |-> <<"MergeBase", "ListChangedFilesInDirs">>]
    IN  After(ListChangedFilesInDirs(git, dirs))

\* FindChangedPackages(remote, targetBranch, dirs): the value is
\* [err, packages, calls], packages the keys of the map and calls the
\* commands Git was asked.
FindChangedPackages(fs, git, dirs) ==
    LET After(listed) ==
            IF listed.err
            THEN [err |-> TRUE, packages |-> {}, calls |-> <<"MergeBase", "ListChangedFilesInDirs">>]
            ELSE [err |-> FALSE, packages |-> ChangedLoop(fs, listed.files, dirs, 1, {}),
                  calls |-> <<"MergeBase", "ListChangedFilesInDirs">>]
    IN  IF MergeBase(git).err
        THEN [err |-> TRUE, packages |-> {}, calls |-> <<"MergeBase">>]
        ELSE After(ListChangedFilesInDirs(git, dirs))

\* The orders in which ranging over a map may give its keys.
MapOrders(keys) == {s \in [1..Cardinality(keys) -> keys] : Range(s) = keys}

InitChanged ==
    /\ UseSDK = NewPackageValidator
    /\ dir = SomeDir
    /\ zarf = SomeTool
    /\ last = NoCall
    /\ lintRun = NotRun
    /\ \E fs \in ChangedFileSystems, git \in GitAnswers, dirs \in SeqsUpTo(ChangedRoots, MaxRoots) :
        arg = [op |-> "FindChangedPackages", fs |-> fs, git |-> git, dirs |-> dirs]
    /\ ret = NoArg

\* zarf.FindChangedPackages(remote, targetBranch, dirs)
Changed ==
    /\ arg.op = "FindChangedPackages"
    /\ ret.op = "none"
    /\ \E out \in {FindChangedPackages(arg.fs, arg.git, arg.dirs)} :
        \E result \in MapOrders(out.packages) :
            ret' = [op |-> "FindChangedPackages", err |-> out.err, packages |-> result, calls |-> out.calls]
    /\ UNCHANGED <<UseSDK, dir, zarf, last, lintRun, arg>>

NextChanged == Changed

SpecChanged == InitChanged /\ [][NextChanged]_vars

ChangedRan == ret.op = "FindChangedPackages"

\* C18: when the merge base cannot be computed, FindChangedPackages returns
\* an error and no list of packages, and Git is not asked for the changed
\* files.
C18_MergeBaseFailureIsFatal ==
    (ChangedRan /\ arg.git.mergeBase.err) =>
        /\ ret.err
        /\ ret.packages = <<>>
        /\ ret.calls = <<"MergeBase">>

\* The merge base could not be computed although files of a package had
\* changed under a root.
C18_Witness ==
    /\ ChangedRan
    /\ arg.git.mergeBase.err
    /\ ~arg.git.diffFails
    /\ ChangedLoop(arg.fs, ListChangedFilesInDirs(arg.git, arg.dirs).files, arg.dirs, 1, {}) # {}

\* The files Git has listed to FindChangedPackages.
ListedFiles == ListChangedFilesInDirs(arg.git, arg.dirs).files

\* The directories above a file, the one the command runs in included.
Ancestors(file) == {SubSeq(file, 1, k) : k \in 0..(Len(file) - 1)}

\* The deepest of a set of directories of one line of descent.
Nearest(S) == CHOOSE d \in S : \A e \in S : Len(e) <= Len(d)

PackageAncestors(file) == {d \in Ancestors(file) : IsZarfPackageIn(arg.fs, d)}

\* C19: given the changed files, FindChangedPackages returns without error
\* and without duplicates exactly the nearest ancestor package directories
\* of the changed files, a file lying directly in a package directory
\* belonging to it; files with no ancestor package are skipped, and so are
\* those whose nearest ancestor package lies under no root.
C19_NearestAncestorPackages ==
    (ChangedRan /\ ~arg.git.mergeBase.err /\ ~arg.git.diffFails) =>
        /\ ~ret.err
        /\ Len(ret.packages) = Cardinality(Range(ret.packages))
        /\ Range(ret.packages) =
            {d \in {Nearest(PackageAncestors(file)) :
                        file \in {g \in Range(ListedFiles) : PackageAncestors(g) # {}}} :
                \E i \in DOMAIN arg.dirs : AtOrBelow(d, arg.dirs[i])}

\* ----------------------------------------------------------------------
\* Semantic versions (github.com/Masterminds/semver) and
\* BreakingChangeAllowed
\* ----------------------------------------------------------------------

DigitChars == <<"0", "1", "2", "3", "4", "5", "6", "7", "8", "9">>

IsDigits(s) == s # <<>> /\ \A i \in DOMAIN s : \E k \in DOMAIN DigitChars : s[i] = DigitChars[k]

DigitValue(c) == (CHOOSE k \in DOMAIN DigitChars : DigitChars[k] = c) - 1

\* strconv.ParseInt of a run of digits
RECURSIVE ParseDigits(_)
ParseDigits(s) ==
    IF Len(s) = 1 THEN DigitValue(s[1])
    ELSE 10 * ParseDigits(SubSeq(s, 1, Len(s) - 1)) + DigitValue(s[Len(s)])

\* %d of a number that is not negative
RECURSIVE FormatDigits(_)
FormatDigits(n) ==
    IF n < 10 THEN <<DigitChars[n + 1]>>
    ELSE FormatDigits(n \div 10) \o <<DigitChars[(n % 10) + 1]>>

\* The first place of the character c in s, or 0.
FirstIndex(s, c) ==
    IF \E i \in DOMAIN s : s[i] = c
    THEN CHOOSE i \in DOMAIN s : s[i] = c /\ \A j \in 1..(i - 1) : s[j] # c
    ELSE 0

\* The parts of s between its dots.
RECURSIVE SplitDots(_)
SplitDots(s) ==
    IF FirstIndex(s, ".") = 0 THEN <<s>>
    ELSE <<SubSeq(s, 1, FirstIndex(s, ".") - 1)>> \o SplitDots(SubSeq(s, FirstIndex(s, ".") + 1, Len(s)))

NoVersion == [err |-> TRUE, major |-> 0, minor |-> 0, patch |-> 0, pre |-> <<>>]

\* semver.NewVersion: an optional "v", one to three numbers between dots
\* (those left out are 0) and an optional prerelease after "-"; the
\* prerelease is modelled for one numeric identifier, build metadata is
\* not modelled.  pre is <<>> or holds the identifier.
NewVersion(v) ==
    LET s == IF v # <<>> /\ v[1] = "v" THEN Tail(v) ELSE v
        dash == FirstIndex(s, "-")
        core == IF dash = 0 THEN s ELSE SubSeq(s, 1, dash - 1)
        pre == IF dash = 0 THEN <<>> ELSE SubSeq(s, dash + 1, Len(s))
        parts == SplitDots(core)
        Part(i) == IF i <= Len(parts) THEN ParseDigits(parts[i]) ELSE 0
    IN  IF /\ Len(parts) <= 3
           /\ \A i \in DOMAIN parts : IsDigits(parts[i])
           /\ dash # 0 => IsDigits(pre)
        THEN [err |-> FALSE, major |-> Part(1), minor |-> Part(2), patch |-> Part(3),
              pre |-> IF dash = 0 THEN <<>> ELSE <<ParseDigits(pre)>>]
        ELSE NoVersion

\* Version.String
VersionString(v) ==
    FormatDigits(v.major) \o <<".">> \o FormatDigits(v.minor) \o <<".">> \o FormatDigits(v.patch)
        \o (IF v.pre = <<>> THEN <<>> ELSE <<"-">> \o FormatDigits(v.pre[1]))

\* Version.Compare: -1, 0 or 1
Compare(v, o) ==
    IF v.major # o.major THEN (IF v.major < o.major THEN -1 ELSE 1)
    ELSE IF v.minor # o.minor THEN (IF v.minor < o.minor THEN -1 ELSE 1)
    ELSE IF v.patch # o.patch THEN (IF v.patch < o.patch THEN -1 ELSE 1)
    ELSE IF v.pre = o.pre THEN 0
    ELSE IF v.pre = <<>> THEN 1
    ELSE IF o.pre = <<>> THEN -1
    ELSE IF v.pre[1] < o.pre[1] THEN -1 ELSE 1

LessThan(v, o) == Compare(v, o) < 0

\* semver.NewConstraint of one comparison: the operator, blanks, and a
\* version; the value is [err, op, con].
NewConstraint(c) ==
    LET rest == TrimLeft(Tail(c), {" "})
    IN  IF c = <<>> \/ c[1] \notin {"^", "~"} \/ NewVersion(rest).err
        THEN [err |-> TRUE, op |-> "", con |-> NoVersion]
        ELSE [err |-> FALSE, op |-> c[1], con |-> NewVersion(rest)]

\* constraintCaret
constraintCaret(v, c) ==
    /\ ~(v.pre # <<>> /\ c.con.pre = <<>>)
    /\ ~LessThan(v, c.con)
    /\ v.major = c.con.major

\* constraintTilde; a constraint made of Version.String leaves out neither
\* minor nor patch.
constraintTilde(v, c) ==
    /\ ~(v.pre # <<>> /\ c.con.pre = <<>>)
    /\ ~LessThan(v, c.con)
    /\ \/ (c.con.major = 0 /\ c.con.minor = 0 /\ c.con.patch = 0)
       \/ (v.major = c.con.major /\ v.minor = c.con.minor)

\* Constraints.Validate: [ok, reasons], reasons the number of reasons
\* given when the version does not pass.
ConstraintsValidate(c, v) ==
    LET ok == IF c.op = "^" THEN constraintCaret(v, c) ELSE constraintTilde(v, c)
    IN  [ok |-> ok, reasons |-> IF ok THEN 0 ELSE 1]

\* BreakingChangeAllowed that returns what Validate says.
BreakingChangeAllowed_ReturnsMinor(left, right) ==
    LET leftVersion == NewVersion(left)
        rightVersion == NewVersion(right)
        constraintOp == IF leftVersion.major = 0 THEN <<"~">> ELSE <<"^">>
        After(c) ==
            IF c.err
            THEN [allowed |-> FALSE, err |-> "constraint"]
            ELSE [allowed |-> ConstraintsValidate(c, rightVersion).ok,
                  err |-> IF ConstraintsValidate(c, rightVersion).reasons > 0 THEN "reasons" ELSE "nil"]
    IN  IF leftVersion.err \/ rightVersion.err
        THEN [allowed |-> FALSE, err |-> "version"]
        ELSE After(NewConstraint(constraintOp \o <<" ">> \o VersionString(leftVersion)))

\* BreakingChangeAllowed(left, right): [allowed, err], err being "nil",
\* "version" (a version does not parse), "constraint" (the constraint does
\* not parse) or "reasons" (the reasons Validate gave).
BreakingChangeAllowed(left, right) ==
    LET leftVersion == NewVersion(left)
        rightVersion == NewVersion(right)
        constraintOp == IF leftVersion.major = 0 THEN <<"~">> ELSE <<"^">>
        After(c) ==
            IF c.err
            THEN [allowed |-> FALSE, err |-> "constraint"]
            ELSE [allowed |-> ~ConstraintsValidate(c, rightVersion).ok,
                  err |-> IF ConstraintsValidate(c, rightVersion).reasons > 0 THEN "reasons" ELSE "nil"]
    IN  IF leftVersion.err \/ rightVersion.err
        THEN [allowed |-> FALSE, err |-> "version"]
        ELSE After(NewConstraint(constraintOp \o <<" ">> \o VersionString(leftVersion)))

\* ----------------------------------------------------------------------
\* SpecSemver: BreakingChangeAllowed on any two version strings
\* ----------------------------------------------------------------------

MaxPart == 2

\* Versions written in full, with and without a prerelease, versions
\* written short or with "v", and strings that are no versions.
VersionInputs ==
    {FormatDigits(a) \o <<".">> \o FormatDigits(b) \o <<".">> \o FormatDigits(c) \o p :
        a \in 0..MaxPart, b \in 0..MaxPart, c \in 0..MaxPart, p \in {<<>>, <<"-", "1">>, <<"-", "2">>}}
    \cup {<<"v", "1", ".", "0", ".", "1">>, <<"1", ".", "1">>, <<"1">>, <<"0", ".", "1", "-", "1">>, <<"1", "0", ".", "0", ".", "0">>, <<>>, <<"a", "b", "c">>, <<"1", ".", "0", ".", "0", ".", "1">>, <<"1", ".", ".", "0">>, <<"1", ".", "0", ".", "0", "-">>, <<"1", ".", "x">>}

InitSemver ==
    /\ UseSDK = NewPackageValidator
    /\ dir = SomeDir
    /\ zarf = SomeTool
    /\ last = NoCall
    /\ lintRun = NotRun
    /\ \E left \in VersionInputs, right \in VersionInputs :
        arg = [op |-> "BreakingChangeAllowed", left |-> left, right |-> right]
    /\ ret = NoArg

\* util.BreakingChangeAllowed(left, right)
Breaking ==
    /\ arg.op = "BreakingChangeAllowed"
    /\ ret.op = "none"
    /\ ret' = [op |-> "BreakingChangeAllowed"] @@ BreakingChangeAllowed(arg.left, arg.right)
    /\ UNCHANGED <<UseSDK, dir, zarf, last, lintRun, arg>>

NextSemver == Breaking

SpecSemver == InitSemver /\ [][NextSemver]_vars

BreakingRan == ret.op = "BreakingChangeAllowed"

\* Both strings are versions.
BothParse == ~NewVersion(arg.left).err /\ ~NewVersion(arg.right).err

\* next is in the compatible range of previous: not lower than previous,
\* of the same major and, when that major is 0, of the same minor (every
\* minor when previous is 0.0.0), and a prerelease only if previous is one.
InCompatibleRange(previous, next) ==
    /\ Compare(next, previous) >= 0
    /\ next.pre # <<>> => previous.pre # <<>>
    /\ IF previous.major >= 1
       THEN next.major = previous.major
       ELSE \/ (previous.minor = 0 /\ previous.patch = 0)
            \/ (next.major = 0 /\ next.minor = previous.minor)

\* C20: BreakingChangeAllowed(previous, next) is true if and only if next
\* is in the compatible range of previous (^previous from major 1 on,
\* ~previous for major 0), and its error is not nil only when a version or
\* the constraint does not parse.
C20_TrueIffCompatible ==
    BreakingRan =>
        /\ ret.allowed <=> (BothParse /\ InCompatibleRange(NewVersion(arg.left), NewVersion(arg.right)))
        /\ ret.err # "nil" => ~BothParse

\* C20, as the code has it: when both versions parse, the value is true if
\* and only if next is outside the compatible range of previous, and then
\* the error holds the reasons; inside the range the value is false and the
\* error nil.  When a version does not parse the value is false and the
\* error says so.
C20_TrueIffOutside ==
    BreakingRan =>
        IF BothParse
        THEN IF InCompatibleRange(NewVersion(arg.left), NewVersion(arg.right))
             THEN ~ret.allowed /\ ret.err = "nil"
             ELSE ret.allowed /\ ret.err = "reasons"
        ELSE ~ret.allowed /\ ret.err = "version"

\* A minor increase of a version of major 1 has been judged.
C20_Witness ==
    /\ BreakingRan
    /\ BothParse
    /\ NewVersion(arg.left).major = 1
    /\ NewVersion(arg.right).major = 1
    /\ NewVersion(arg.right).minor > NewVersion(arg.left).minor
    /\ ~ret.allowed

\* C21: the validator turns UseSDK off only when the lint tool cannot be
\* run; so, with the tool available, a call returns what a new validator
\* would return for the package, whatever was validated before.
C21_FallbackOnlyWithoutTool ==
    last.called =>
        /\ (last.before /\ ~last.out.UseSDK) => ~zarf.available
        /\ zarf.available =>
            last.out.result = ValidatePackage(NewPackageValidator, dir, zarf).result

C23_FallbackRunsPasses ==
    (last.called /\ last.before /\ dir.hasManifest /\ ~zarf.available
        /\ Revisions[dir.content].parses) =>
        /\ Range(PassNames) \subseteq Range(last.out.trace)
        /\ Range(PassChain(1, dir, NewResult(dir.path, TRUE), <<>>).result.Errors)
                \subseteq Range(last.out.result.Errors)
        /\ Range(PassChain(1, dir, NewResult(dir.path, TRUE), <<>>).result.Warnings)
                \subseteq Range(last.out.result.Warnings)

\* util.CompareVersions(left, right): [err, cmp]
CompareVersions(left, right) ==
    IF NewVersion(left).err \/ NewVersion(right).err
    THEN [err |-> TRUE, cmp |-> 0]
    ELSE [err |-> FALSE, cmp |-> Compare(NewVersion(left), NewVersion(right))]

\* The characters of a metadata.version of the manifests.
VersionChars(version) ==
    CASE version = "1.0.0" -> <<"1", ".", "0", ".", "0">>
      [] version = "1.1.0" -> <<"1", ".", "1", ".", "0">>
      [] version = "2.0.0" -> <<"2", ".", "0", ".", "0">>
      [] version = "" -> <<>>

\* C24: when the previous and the current version differ, the pass decides
\* by comparing them as semantic versions: a current version that is higher
\* gets no error, whatever else differs, and a current version that is
\* lower is not accepted.
C24_DecidesBySemver ==
    (VersionPassRan /\ PreviousKnown /\ CurrentVersion # PreviousVersion) =>
        /\ ~ret.err
        /\ CompareVersions(VersionChars(CurrentVersion), VersionChars(PreviousVersion)).cmp > 0 =>
                ret.result.Errors = ret.before.Errors
        /\ CompareVersions(VersionChars(CurrentVersion), VersionChars(PreviousVersion)).cmp < 0 =>
                (ret.result.Errors # ret.before.Errors /\ ~ret.result.Valid)

\* s begins with p.
IsPrefixOf(p, s) == Len(p) <= Len(s) /\ SubSeq(s, 1, Len(p)) = p

\* C25: the checks of the warning class leave Errors and Valid as they
\* found them and only append to Warnings: the image-pinning pass, the
\* security pass and the resource pass as a whole, and in the component
\* pass everything but the check for duplicates, whose errors are the only
\* ones the pass adds.
C25_WarningChecksKeepValidity ==
    /\ ret.op \in {"validateImagePinning", "validateSecurityBestPractices",
                   "validateResourceConstraints"} =>
        /\ ret.result.Errors = ret.before.Errors
        /\ ret.result.Valid = ret.before.Valid
        /\ IsPrefixOf(ret.before.Warnings, ret.result.Warnings)
    /\ ret.op = "validateComponents" =>
        /\ ret.result.Valid = ret.before.Valid
        /\ IsPrefixOf(ret.before.Warnings, ret.result.Warnings)
        /\ IsPrefixOf(ret.before.Errors, ret.result.Errors)
        /\ \A i \in DOMAIN ret.result.Errors :
            i > Len(ret.before.Errors) => ret.result.Errors[i][1] = MsgDuplicate(<<>>)[1]

\* The security pass, given an invalid result with errors, has met a
\* manifest file it could not read and one with a privileged container.
C25_Witness ==
    /\ ret.op = "validateSecurityBestPractices"
    /\ ~ret.before.Valid
    /\ ret.before.Errors # <<>>
    /\ \E i \in DOMAIN ret.result.Warnings : ret.result.Warnings[i][1] = MsgAnalyzeFailed(<<>>)[1]
    /\ \E i \in DOMAIN ret.result.Warnings : ret.result.Warnings[i][1] = MsgPrivileged(<<>>)[1]

\* C26: every warning of the image-pinning pass names an image reference
\* of the manifest, an entry of a list of images or the value of an image:
\* field; no other line gives a warning.
C26_WarningsNameImages ==
    PinningRan =>
        \A i \in DOMAIN ret.result.Warnings :
            \E ref \in DeclaredRefs : ret.result.Warnings[i] = MsgNotPinned(ref)

\* The edge from component x to the name y lies on a cycle: x is reached
\* from y along edges.
OnCycle(graph, x, y) == <<y, x>> \in Closure(graph.edges)

\* How often component x lists the name y.
EdgeOccurrences(graph, x, y) ==
    CountIn(DepsOf(graph, x), ComponentName(y))

\* C27: on every graph of uniquely named components, for every depsWith edge
\* from X to Y the search hasDependencyCycle(X, Y) with a fresh visited set
\* comes to an end and finds a cycle exactly when X is reached from Y along
\* depsWith edges; the pass records one cycle error for each listing of such
\* an edge and no cycle error for any other pair of names.
C27_CycleErrorPerEdgeOnCycle ==
    DepsRan =>
        LET graph == arg.graph
            componentMap == ComponentMap(ComponentsOf(graph))
        IN  /\ \A e \in graph.edges :
                hasDependencyCycle(ComponentName(e[1]), ComponentName(e[2]),
                                   componentMap, {}).found
                    <=> OnCycle(graph, e[1], e[2])
            /\ \A x \in 1..MaxComponents, y \in 1..MaxComponents :
                CountIn(ret.result.Errors, MsgCycle(ComponentName(x), ComponentName(y)))
                    = IF <<x, y>> \in graph.edges /\ OnCycle(graph, x, y)
                      THEN EdgeOccurrences(graph, x, y)
                      ELSE 0

\* The pass has run on the cycle of two components with a third component
\* depending on it: one cycle error for each edge of the cycle, none for the
\* edge that leads into it.
C27_Witness ==
    /\ DepsRan
    /\ arg.graph.n = 3 /\ ~arg.graph.doubled
    /\ arg.graph.edges = {<<1, 2>>, <<2, 1>>, <<3, 1>>}
    /\ CountIn(ret.result.Errors, MsgCycle(ComponentName(1), ComponentName(2))) = 1
    /\ CountIn(ret.result.Errors, MsgCycle(ComponentName(2), ComponentName(1))) = 1
    /\ Len(ret.result.Errors) = 2

\* A directory lies under a root of dirs: it is the root or below it.
UnderRoot(d, dirs) == \E i \in DOMAIN dirs : AtOrBelow(d, dirs[i])

\* C28: for every changed file and every list of roots the upward walk of
\* findPackageContainingFile comes to an end; a package directory it returns
\* is a root or lies below one, and a file whose nearest ancestor package
\* lies under no root yields no package.
C28_ReturnedPackagesUnderRoots ==
    (ChangedRan /\ ~ret.err) =>
        \A k \in DOMAIN ListedFiles :
            LET found == findPackageContainingFile(arg.fs, ListedFiles[k], arg.dirs)
                owners == PackageAncestors(ListedFiles[k])
            IN  /\ ~found.err =>
                    /\ found.dir \in Range(ret.packages)
                    /\ UnderRoot(found.dir, arg.dirs)
                /\ (owners # {} /\ ~UnderRoot(Nearest(owners), arg.dirs)) => found.err

\* The messages of the lines of an output that hold a marker: of each such
\* line, with the blanks around it removed, the text after the marker.
RECURSIVE MarkedMessages(_, _)
MarkedMessages(output, marker) ==
    IF output = <<>>
    THEN <<>>
    ELSE LET line == TrimSpace(Head(output))
         IN  (IF Contains(line, marker) THEN <<AfterMarker(line, marker)>> ELSE <<>>)
             \o MarkedMessages(Tail(output), marker)

\* C29: whatever the lint tool prints and however it exits, the result of
\* the lint run holds as errors the texts after " ERR " of the lines that
\* contain it, as warnings the texts after " WRN " of the lines that contain
\* it, and nothing for the lines that contain neither.
C29_MarkedLinesRecorded ==
    ret.op = "zarf dev lint" =>
        /\ ret.result.Errors = MarkedMessages(arg.tool.output, <<" ", "E", "R", "R", " ">>)
        /\ ret.result.Warnings = MarkedMessages(arg.tool.output, <<" ", "W", "R", "N", " ">>)

\* ----------------------------------------------------------------------
\* SpecResources: validateResourceConstraints on components with files of
\* any size and with few or many images
\* ----------------------------------------------------------------------

MaxFiles == 2

\* Sources of files: files of 101 MB, of 100 MB and of 100 MB and one byte,
\* and a file that does not exist.
FileSources == {"big", "small", "edge", "gone"}

\* Numbers of images around the threshold.
ImageCounts == {0, ManyImages, ManyImages + 1}

\* A component with the files of the sources given and n images.
ResourceComponent(name, sources, n) ==
    [ZarfComponent(name, <<>>) EXCEPT
        !.Files = [k \in DOMAIN sources |-> [Source |-> sources[k], Target |-> "/t"]],
        !.Images = [k \in 1..n |-> TaggedImage]]

ResourceComponents(name) ==
    {ResourceComponent(name, sources, n) :
        sources \in SeqsUpTo(FileSources, MaxFiles), n \in ImageCounts}

InitResources ==
    /\ UseSDK = NewPackageValidator
    /\ dir = SomeDir
    /\ zarf = SomeTool
    /\ last = NoCall
    /\ lintRun = NotRun
    /\ \E first \in ResourceComponents(ComponentName(1)),
          second \in ResourceComponents(ComponentName(2)), both \in BOOLEAN :
        arg = [op |-> "validateResourceConstraints",
               components |-> IF both THEN <<first, second>> ELSE <<first>>]
    /\ ret = NoArg

\* v.validateResourceConstraints(packagePath, result) on a result without
\* messages
Resources ==
    /\ arg.op = "validateResourceConstraints"
    /\ ret.op = "none"
    /\ ret' = [op |-> "validateResourceConstraints"] @@
                validateResourceConstraintsOf(
                    [err |-> FALSE,
                     zarfYaml |-> ZarfYaml(ZarfPackageConfig, app, "d", "1.0.0",
                                           arg.components)],
                    NewResult("pkgs/a", TRUE))
    /\ UNCHANGED <<UseSDK, dir, zarf, last, lintRun, arg>>

NextResources == Resources

SpecResources == InitResources /\ [][NextResources]_vars

ResourcesRan == ret.op = "validateResourceConstraints" /\ ~ret.err

\* The result holds a large-file warning for that file of that component.
LargeFileWarned(name, source) ==
    \E w \in DOMAIN ret.result.Warnings :
        /\ ret.result.Warnings[w][1] = MsgLargeFile(name, 0, source)[1]
        /\ ret.result.Warnings[w][2] = name
        /\ ret.result.Warnings[w][4] = source

\* The result holds an image-count warning for that component.
ManyImagesWarned(name) ==
    \E w \in DOMAIN ret.result.Warnings :
        /\ ret.result.Warnings[w][1] = MsgManyImages(name, 0)[1]
        /\ ret.result.Warnings[w][2] = name

\* The size in bytes of a file that exists, 0 otherwise.
BytesOf(source) == IF StatAux(source).err THEN 0 ELSE StatAux(source).size

\* C30: the resource pass warns of a file of a component exactly when the
\* size of the file in bytes exceeds 100 * 1024 * 1024, and of the images of
\* a component exactly when it lists more than 10 of them.
C30_WarnsAboveThresholds ==
    ResourcesRan =>
        \A i \in DOMAIN arg.components :
            LET component == arg.components[i]
            IN  /\ \A k \in DOMAIN component.Files :
                    LargeFileWarned(component.Name, component.Files[k].Source)
                        <=> BytesOf(component.Files[k].Source) > LargeFileMB * 1024 * 1024
                /\ ManyImagesWarned(component.Name)
                        <=> Len(component.Images) > ManyImages

====
